---- MODULE Spec2Model ----
(***************************************************************************)
(* mutx: advisory-lock coordinated atomic file writes.                     *)
(*                                                                         *)
(* Spec      : writers running execute_write concurrently with a           *)
(*             housekeeper running clean_locks on the same lock path.      *)
(* SpecW     : the writers alone (acquire / write / release only).         *)
(***************************************************************************)
EXTENDS Integers, Sequences, FiniteSets, TLC

(* ------------------------------ bounds --------------------------------- *)
NumWriters == 2
PayloadLen == 2

MaxDuration == 12
MaxCap == 12
MaxPolls == 4
NumEntries == 2
MaxAge == 1
NumFiles == 2
MaxWrites == 2
MaxKeep == 2

(* ------------------------- program constants --------------------------- *)
ReadBufLen == 8192
InitialInterval == 10
JitterRange == 100
DefaultMaxPoll == 1000

\* Process ids: the writers are 1..NumWriters, the housekeeper is process 0.
\* Lock-file inodes are numbered from 1; 0 stands for "no file / no handle".
\* The target's inode is 0 for the file that existed before any writer ran
\* and w for the inode that writer w's temp file brought with it.
Writers == 1..NumWriters
Procs == 0..NumWriters
Hk == CHOOSE p \in Procs : p \notin Writers
Inodes == 1..(NumWriters + 2)

Strategies == {"Wait", "NoWait", "Timeout"}
Modes == {"Simple", "Streaming"}

OldContent == <<7>>
Payload(w) == [i \in 1..PayloadLen |-> 10 * w + i]

Min(a, b) == IF a < b THEN a ELSE b

\* the suffix is_backup_file and extract_base_filename look for
BackupSuffix == <<".", "m", "u", "t", "x", ".", "b", "a", "c", "k", "u", "p">>

VARIABLES
    pc,           \* control point of every process
    strategy,     \* LockStrategy of each writer
    mode,         \* WriteMode of each writer
    dryRun,       \* CleanLockConfig.dry_run
    lockIno,      \* inode the lock path resolves to (0: no such file)
    fd,           \* inode behind each process's open handle on the lock file
    locked,       \* whether that handle owns the exclusive advisory lock
    targetExists, \* the target path resolves to a file
    target,       \* bytes readable at the target path
    targetIno,    \* inode identity of the target path
    inpos,        \* bytes of the input consumed so far
    buffer,       \* AtomicWriter.buffer
    tempOpen,     \* a sibling temp file of this writer exists
    tempData,     \* bytes in that temp file
    err,          \* MutxError returned by execute_write
    exitCode,     \* process exit status (-1 while running)
    cleaned,      \* number of paths pushed to clean_locks' result
    duration,     \* TimeoutConfig.duration (ms)
    maxPoll,      \* TimeoutConfig.max_poll_interval (ms)
    elapsed,      \* start.elapsed() at the poller's latest try or wake-up (ms)
    wakeAt,       \* elapsed time at which the running thread::sleep ends
    cur,          \* current_interval (ms)
    polls,        \* failed attempts of the try-lock loop so far
    releasedAt,   \* poller's clock when the holder let go (-1: not yet)
    olderThan,    \* CleanLockConfig.older_than: {} or {seconds}
    recursive,    \* CleanLockConfig.recursive
    scanIdx,      \* directory entries read_dir has yielded so far
    ent,          \* the entry yielded last
    reported,     \* entries pushed to `cleaned` by the scan
    removed,      \* entries the scan has unlinked
    op,           \* housekeep operation: "locks" or "backups"
    keepNewest,   \* CleanBackupConfig.keep_newest: {} or {count}
    phase,        \* progress of a scan: "visit", "process", "done", or
                  \* "failed" (the scan returned Err)
    listing,      \* the directory's entries in read_dir order, as far as seen
    visited,      \* entries visit_directory handed to the visitor
    collected,    \* clean_backups' `backups` map, as (entry, key, age) items
    doneKeys,     \* groups clean_backups has processed
    run,          \* 1: first scan, 2: the scan that follows a dry run
    dryReported,  \* what the dry run returned
    lapse,        \* seconds between the dry run and the run after it
    hkSuffix,     \* execute_clean_backups' `suffix` (--suffix)
    backupOn,     \* the --backup flag of each writer
    tgtName,      \* file name of the target
    suffix,       \* BackupConfig.suffix
    backedUp,     \* execute_write's backup_path is bound (create_backup was Ok)
    bakExists,    \* a file exists at the backup path
    bak,          \* bytes of that file
    stageExists,  \* a file exists at the staging path, where that is a path
                  \* of its own
    stage,        \* bytes of that file
    outArg,       \* execute_write's `output`, as path components
    lockArg,      \* `lock_file` (<<>>: none given)
    inArg,        \* `input` (<<>>: stdin)
    linkTo,       \* referent of the symlink /d/sl (<<>>: no such symlink)
    lkExists,     \* a regular file exists at /d/lk
    cacheDir,     \* the lock cache directory exists
    lockPath,     \* execute_write's `lock_path` (<<>>: not bound yet)
    follow,       \* --follow-symlinks
    followLock,   \* --follow-lock-symlinks
    wrPlan,       \* the byte slices the caller hands to write_all, in call order
    stamped,      \* BackupConfig.timestamp
    bakDir        \* BackupConfig.directory ("parent": None)

timeVars == <<duration, maxPoll, elapsed, wakeAt, cur, polls, releasedAt>>
scanVars == <<olderThan, recursive, scanIdx, ent, reported, removed>>
sweepVars == <<op, keepNewest, phase, listing, visited, collected, doneKeys, run,
               dryReported, lapse, hkSuffix>>
bakFiles == <<bakExists, bak, stageExists, stage>>
bakVars == <<backupOn, tgtName, suffix, backedUp, bakFiles>>
pathVars == <<outArg, lockArg, inArg, linkTo, lkExists, cacheDir, lockPath, follow,
              followLock>>
argVars == <<pathVars, wrPlan, stamped, bakDir>>
sideVars == <<sweepVars, bakVars, argVars>>
otherVars == <<cleaned, timeVars, scanVars, sideVars>>

vars == <<pc, strategy, mode, dryRun, lockIno, fd, locked, targetExists, target,
          targetIno, inpos, buffer, tempOpen, tempData, err, exitCode, cleaned,
          timeVars, scanVars, sideVars>>

lockVars == <<lockIno, fd, locked>>
fileVars == <<targetExists, target, targetIno>>
sessVars == <<inpos, buffer, tempOpen, tempData>>
cfgVars == <<strategy, mode, dryRun>>
outVars == <<err, exitCode>>

(* ----------------------------- error kinds ----------------------------- *)
\* exit_code without its arm for io::ErrorKind::Interrupted
ExitCodeOfIgnoringIoKind(e) ==
    CASE e \in {"LockTimeout", "LockWouldBlock"} -> 2
      [] e = "Interrupted" -> 3
      [] OTHER -> 1

\* main: LockTimeout | LockWouldBlock => 2, Interrupted => 3, _ => exit_code()
ExitCodeOf(e) ==
    CASE e \in {"LockTimeout", "LockWouldBlock"} -> 2
      [] e = "Interrupted" -> 3
      [] e = "Io:Interrupted" -> 3
      [] OTHER -> 1

(* ------------------------- the advisory lock --------------------------- *)
InUse(i) == i = lockIno \/ \E p \in Procs : fd[p] = i

FreshIno == CHOOSE i \in Inodes : ~InUse(i) /\ \A j \in Inodes : ~InUse(j) => i <= j

\* flock contention: another open handle on the same inode owns the lock
HeldByOther(p) == \E q \in Procs \ {p} : fd[q] = fd[p] /\ locked[q]

SessionPcs == {"copy", "commit", "commit_write", "commit_rename"}

\* a live FileLock: acquire has returned Ok and the value is not dropped yet
BackupPcs == {"backup", "bk_copy", "bk_rename"}

Holds(w) == pc[w] \in ({"held", "committed"} \cup BackupPcs \cup SessionPcs)

(* ------------------------------- Init ---------------------------------- *)
\* the bounded-poll clock and the directory scan at rest
TimeIdle ==
    /\ duration = 0 /\ maxPoll = 0 /\ elapsed = 0 /\ wakeAt = 0
    /\ cur = 0 /\ polls = 0 /\ releasedAt = -1

NoEntry == [name |-> <<>>, place |-> "file", age |-> 0, held |-> FALSE, fault |-> "none"]

SweepIdle ==
    /\ op = "locks" /\ keepNewest = {} /\ phase = "visit" /\ listing = <<>>
    /\ visited = {} /\ collected = <<>> /\ doneKeys = {} /\ run = 1
    /\ dryReported = {} /\ lapse = 0 /\ hkSuffix = BackupSuffix

\* no writer asks for a backup
BakIdle ==
    /\ backupOn = [w \in Writers |-> FALSE]
    /\ tgtName = <<"a", ".", "x">> /\ suffix = <<".", "b">>
    /\ backedUp = [w \in Writers |-> FALSE]
    /\ bakExists = FALSE /\ bak = <<>> /\ stageExists = FALSE /\ stage = <<>>

\* the target is /d/out, the lock path is derived, no symlink is around
PathIdle ==
    /\ outArg = <<"/", "d", "out">> /\ lockArg = <<>> /\ inArg = <<>>
    /\ linkTo = <<>> /\ lkExists = FALSE /\ cacheDir = TRUE /\ lockPath = <<>>
    /\ follow = FALSE /\ followLock = FALSE

\* the input is the writer's payload; backups are unstamped, next to the target
ArgIdle == PathIdle /\ wrPlan = <<>> /\ stamped = FALSE /\ bakDir = "parent"

SideIdle == SweepIdle /\ BakIdle /\ ArgIdle

ScanIdle ==
    /\ olderThan = {} /\ recursive = FALSE /\ scanIdx = 0
    /\ ent = NoEntry /\ reported = {} /\ removed = {}
    /\ SideIdle

Init ==
    /\ pc = [p \in Procs |-> IF p = Hk THEN "hk_idle" ELSE "open"]
    /\ strategy \in [Writers -> Strategies]
    /\ mode \in [Writers -> Modes]
    /\ dryRun \in BOOLEAN
    /\ lockIno \in {0, 1}
    /\ fd = [p \in Procs |-> 0]
    /\ locked = [p \in Procs |-> FALSE]
    /\ targetExists \in BOOLEAN
    /\ target = IF targetExists THEN OldContent ELSE <<>>
    /\ targetIno = 0
    /\ inpos = [w \in Writers |-> 0]
    /\ buffer = [w \in Writers |-> <<>>]
    /\ tempOpen = [w \in Writers |-> FALSE]
    /\ tempData = [w \in Writers |-> <<>>]
    /\ err = [w \in Writers |-> "none"]
    /\ exitCode = [w \in Writers |-> -1]
    /\ cleaned = 0
    /\ TimeIdle
    /\ ScanIdle

(* ------------------- dropping the lock and the writer ------------------ *)
\* a drop that leaks the File: the handle stays open and keeps its lock
CloseLockHandleLeaking(w) == UNCHANGED <<fd, locked>>

\* the File inside acquire / FileLock is dropped: the handle is closed and
\* the OS releases its advisory lock
CloseLockHandle(w) ==
    /\ fd' = [fd EXCEPT ![w] = 0]
    /\ locked' = [locked EXCEPT ![w] = FALSE]

\* impl Drop for FileLock of the superseded src/lock.rs: remove_file(path)
DropFileLockUnlinking(w) ==
    /\ CloseLockHandle(w)
    /\ lockIno' = 0

\* impl Drop for FileLock: nothing but the handle going away
DropFileLock(w) ==
    /\ CloseLockHandle(w)
    /\ lockIno' = lockIno

\* the writer is dropped but its temp file is forgotten in the directory
DropWriterLeavingTemp(w) ==
    /\ UNCHANGED <<tempOpen, tempData>>
    /\ buffer' = [buffer EXCEPT ![w] = <<>>]

\* AtomicWriter dropped: AtomicWriteFile discards its temp file
DropWriter(w) ==
    /\ tempOpen' = [tempOpen EXCEPT ![w] = FALSE]
    /\ tempData' = [tempData EXCEPT ![w] = <<>>]
    /\ buffer' = [buffer EXCEPT ![w] = <<>>]

\* main: eprintln the error, process::exit(code)
ExitWith(w, e) ==
    /\ pc' = [pc EXCEPT ![w] = "failed"]
    /\ err' = [err EXCEPT ![w] = e]
    /\ exitCode' = [exitCode EXCEPT ![w] = ExitCodeOf(e)]

\* acquire returns Err but the opened lock file is leaked, not closed
AcquireFailsKeepingHandle(w, e) ==
    /\ ExitWith(w, e)
    /\ UNCHANGED <<lockVars, fileVars, sessVars, cfgVars, otherVars>>

\* FileLock::acquire returns Err: only the opened File is dropped
AcquireFails(w, e) ==
    /\ ExitWith(w, e)
    /\ CloseLockHandle(w)
    /\ UNCHANGED <<lockIno, fileVars, sessVars, cfgVars, otherVars>>

\* execute_write returns Err after the lock was taken: writer and lock drop
SessionFails(w, e) ==
    /\ ExitWith(w, e)
    /\ DropWriter(w)
    /\ DropFileLock(w)
    /\ UNCHANGED <<fileVars, inpos, cfgVars, otherVars>>

(* ------------------------------- paths --------------------------------- *)
\* A path is its sequence of components; "/" first makes it absolute.  The
\* namespace: the working directory /d, the lock cache directory /c, no
\* directory /nd, at most one symlink /d/sl.
Cwd == <<"/", "d">>
CacheDir == <<"/", "c">>
OutFile == <<"/", "d", "out">>
InFile == <<"/", "d", "in">>
LkFile == <<"/", "d", "lk">>
SlPath == <<"/", "d", "sl">>
Missing == <<"/", "d", "gone">>

IsDot(c) == c = "."

NotDot(c) == ~IsDot(c)

\* the absolute path with its "." components dropped
Norm(p) ==
    IF p = <<>> THEN <<>>
    ELSE SelectSeq(IF p[1] = "/" THEN p ELSE Cwd \o p, NotDot)

\* what the path names once a final symlink is followed
Resolve(p) == IF Norm(p) = SlPath /\ linkTo # <<>> THEN linkTo ELSE Norm(p)

\* the file `output` denotes
TargetFile == Resolve(outArg)

\* the lock path denotes the file the output denotes
LockIsTarget == lockPath # <<>> /\ Resolve(lockPath) = TargetFile

Dirs == {<<"/">>, Cwd} \cup (IF cacheDir THEN {CacheDir} ELSE {})

\* a regular file is at the absolute path a
FileAt(a) ==
    \/ a = TargetFile /\ targetExists
    \/ a = InFile
    \/ a = LkFile /\ lkExists
    \/ lockPath # <<>> /\ a = Resolve(lockPath) /\ lockIno # 0

\* fs::symlink_metadata: the entry itself
Lstat(p) ==
    IF p = <<>> THEN "none"
    ELSE IF Norm(p) = SlPath /\ linkTo # <<>> THEN "link"
    ELSE IF Norm(p) \in Dirs THEN "dir"
    ELSE IF FileAt(Norm(p)) THEN "file"
    ELSE "none"

\* fs::metadata: the entry a final symlink leads to
Stat(p) ==
    IF p = <<>> THEN "none"
    ELSE IF Resolve(p) \in Dirs THEN "dir"
    ELSE IF FileAt(Resolve(p)) THEN "file"
    ELSE "none"

\* Path::exists: fs::metadata(path).is_ok()
Exists(p) == Stat(p) # "none"

\* Path::parent: the path without its final component; "" for a bare name
Parent(p) == SubSeq(p, 1, Len(p) - 1)

\* Path::file_name
FileName(p) == p[Len(p)]

\* PathBuf equality compares components(): a "." is dropped unless it leads
Components(p) == IF p = <<>> THEN <<>> ELSE <<p[1]>> \o SelectSeq(Tail(p), NotDot)

\* path.canonicalize().unwrap_or_else(|_| path.to_path_buf())
CanonicalOrRaw(p) == IF Exists(p) THEN Resolve(p) ELSE p

(* ----------------------- FileLock::acquire ----------------------------- *)
\* OpenOptions create(true).write(true).truncate(true).open(lock_path):
\* whatever file the lock path leads to is created or emptied
OpenLockFile(w) ==
    /\ pc[w] = "open"
    /\ LET ino == IF lockIno = 0 THEN FreshIno ELSE lockIno IN
        /\ lockIno' = ino
        /\ fd' = [fd EXCEPT ![w] = ino]
    /\ IF LockIsTarget
       THEN targetExists' = TRUE /\ target' = <<>> /\ targetIno' = targetIno
       ELSE UNCHANGED fileVars
    /\ pc' = [pc EXCEPT ![w] = "lock"]
    /\ UNCHANGED <<locked, sessVars, cfgVars, outVars, otherVars>>

OpenLockFileFail(w) ==
    /\ pc[w] = "open"
    /\ AcquireFails(w, "LockCreationFailed")

\* an acquire that returns Ok without having taken the advisory lock
AcquiredUnlocked(w) ==
    /\ pc' = [pc EXCEPT ![w] = IF backupOn[w] THEN "backup" ELSE "held"]
    /\ UNCHANGED <<lockVars, fileVars, sessVars, cfgVars, outVars, otherVars>>

\* lock_exclusive / try_lock_exclusive returned Ok: Ok(FileLock { file, path })
Acquired(w) ==
    /\ locked' = [locked EXCEPT ![w] = TRUE]
    /\ pc' = [pc EXCEPT ![w] = IF backupOn[w] THEN "backup" ELSE "held"]
    /\ UNCHANGED <<lockIno, fd, fileVars, sessVars, cfgVars, outVars, otherVars>>

\* LockStrategy::Wait: lock_exclusive() blocks until the inode is free
LockWait(w) ==
    /\ pc[w] = "lock"
    /\ strategy[w] = "Wait"
    /\ ~HeldByOther(w)
    /\ Acquired(w)

\* NoWait that does not recognise contention (is_lock_contention ignored)
LockNoWaitUnclassified(w) ==
    /\ pc[w] = "lock"
    /\ strategy[w] = "NoWait"
    /\ IF HeldByOther(w)
       THEN AcquireFails(w, "LockAcquisitionFailed")
       ELSE Acquired(w)

\* LockStrategy::NoWait: try_lock_exclusive()
LockNoWait(w) ==
    /\ pc[w] = "lock"
    /\ strategy[w] = "NoWait"
    /\ IF HeldByOther(w)
       THEN AcquireFails(w, "LockWouldBlock")
       ELSE Acquired(w)

\* LockStrategy::Timeout: one turn of the try-lock loop; whether
\* start.elapsed() >= duration is left open here (SpecTimed keeps the clock)
LockPollTry(w) ==
    /\ pc[w] = "lock"
    /\ strategy[w] = "Timeout"
    /\ IF HeldByOther(w)
       THEN \/ AcquireFails(w, "LockTimeout")
            \/ /\ pc' = [pc EXCEPT ![w] = "sleep"]
               /\ UNCHANGED <<lockVars, fileVars, sessVars, cfgVars, outVars, otherVars>>
       ELSE Acquired(w)

\* thread::sleep returns, current_interval is scaled, the loop turns
LockPollWake(w) ==
    /\ pc[w] = "sleep"
    /\ pc' = [pc EXCEPT ![w] = "lock"]
    /\ UNCHANGED <<lockVars, fileVars, sessVars, cfgVars, outVars, otherVars>>

\* any error of the lock call that is not contention
LockError(w) ==
    /\ pc[w] = "lock"
    /\ ~HeldByOther(w)
    /\ AcquireFails(w, "LockAcquisitionFailed")

(* --------------------------- the write session ------------------------- *)
\* an AtomicWriter::new that opens its temp file at once
BeginSessionOpeningTemp(w) ==
    /\ pc[w] = "held"
    /\ pc' = [pc EXCEPT ![w] = "copy"]
    /\ tempOpen' = [tempOpen EXCEPT ![w] = TRUE]
    /\ UNCHANGED <<lockVars, fileVars, inpos, buffer, tempData, cfgVars, outVars, otherVars>>

\* AtomicWriter::new, then the input is opened (File::open or stdin)
BeginSession(w) ==
    /\ pc[w] = "held"
    /\ pc' = [pc EXCEPT ![w] = "copy"]
    /\ UNCHANGED <<lockVars, fileVars, sessVars, cfgVars, outVars, otherVars>>

BeginSessionFail(w) ==
    /\ pc[w] = "held"
    /\ SessionFails(w, "ReadFailed")

\* write_all that streams into the target itself instead of a temp file
WriteAllInPlace(w, chunk) ==
    IF mode[w] = "Simple"
    THEN /\ buffer' = [buffer EXCEPT ![w] = @ \o chunk]
         /\ UNCHANGED <<tempOpen, tempData, fileVars>>
    ELSE /\ target' = (IF inpos[w] = 0 THEN <<>> ELSE target) \o chunk
         /\ targetExists' = TRUE
         /\ UNCHANGED <<targetIno, buffer, tempOpen, tempData>>

\* write_all that keeps only the slice of the latest call
WriteAllOverwriting(w, chunk) ==
    /\ IF mode[w] = "Simple"
       THEN /\ buffer' = [buffer EXCEPT ![w] = chunk]
            /\ UNCHANGED <<tempOpen, tempData>>
       ELSE /\ tempOpen' = [tempOpen EXCEPT ![w] = TRUE]
            /\ tempData' = [tempData EXCEPT ![w] = chunk]
            /\ UNCHANGED buffer
    /\ UNCHANGED fileVars

\* AtomicWriter::write_all(buf)
WriteAll(w, chunk) ==
    /\ IF mode[w] = "Simple"
       THEN /\ buffer' = [buffer EXCEPT ![w] = @ \o chunk]
            /\ UNCHANGED <<tempOpen, tempData>>
       ELSE /\ tempOpen' = [tempOpen EXCEPT ![w] = TRUE]
            /\ tempData' = [tempData EXCEPT ![w] = @ \o chunk]
            /\ UNCHANGED buffer
    /\ UNCHANGED fileVars

\* one turn of the copy loop: read n > 0 bytes, hand them to the writer
CopyChunk(w) ==
    /\ pc[w] = "copy"
    /\ \E n \in 1..Min(ReadBufLen, PayloadLen - inpos[w]) :
        /\ WriteAll(w, SubSeq(Payload(w), inpos[w] + 1, inpos[w] + n))
        /\ inpos' = [inpos EXCEPT ![w] = @ + n]
    /\ UNCHANGED <<pc, lockVars, cfgVars, outVars, otherVars>>

\* read returns 0: end of input
ReadEof(w) ==
    /\ pc[w] = "copy"
    /\ inpos[w] = PayloadLen
    /\ pc' = [pc EXCEPT ![w] = "commit"]
    /\ UNCHANGED <<lockVars, fileVars, sessVars, cfgVars, outVars, otherVars>>

\* input_reader.read(..)? fails: MutxError::Io
ReadFail(w) ==
    /\ pc[w] = "copy"
    /\ \E e \in {"Io:Interrupted", "Io:Other"} : SessionFails(w, e)

\* streaming write_all fails (AtomicWriteFile::open or temp.write_all)
WriteAllFail(w) ==
    /\ pc[w] = "copy"
    /\ mode[w] = "Streaming"
    /\ inpos[w] < PayloadLen
    /\ SessionFails(w, "WriteFailed")

\* commit: AtomicWriteFile::open(&self.target), in simple mode and in
\* streaming mode when nothing was written
CommitOpenTemp(w) ==
    /\ pc[w] = "commit"
    /\ mode[w] = "Simple" \/ ~tempOpen[w]
    /\ tempOpen' = [tempOpen EXCEPT ![w] = TRUE]
    /\ tempData' = [tempData EXCEPT ![w] = <<>>]
    /\ pc' = [pc EXCEPT ![w] = IF mode[w] = "Simple" THEN "commit_write"
                                                      ELSE "commit_rename"]
    /\ UNCHANGED <<lockVars, fileVars, inpos, buffer, cfgVars, outVars, otherVars>>

\* commit, simple mode: temp.write_all(&self.buffer)
CommitWriteBuffer(w) ==
    /\ pc[w] = "commit_write"
    /\ tempData' = [tempData EXCEPT ![w] = buffer[w]]
    /\ pc' = [pc EXCEPT ![w] = "commit_rename"]
    /\ UNCHANGED <<lockVars, fileVars, inpos, buffer, tempOpen, cfgVars, outVars, otherVars>>

\* commit that copies the temp file's bytes onto the end of the target
AppendToTarget(w) ==
    /\ targetExists' = TRUE
    /\ target' = target \o tempData[w]
    /\ targetIno' = targetIno
    /\ tempOpen' = [tempOpen EXCEPT ![w] = FALSE]
    /\ tempData' = [tempData EXCEPT ![w] = <<>>]

\* AtomicWriteFile::commit: the temp file is renamed over the target
RenameOverTarget(w) ==
    /\ targetExists' = TRUE
    /\ target' = tempData[w]
    /\ targetIno' = w
    /\ tempOpen' = [tempOpen EXCEPT ![w] = FALSE]
    /\ tempData' = [tempData EXCEPT ![w] = <<>>]

CommitRename(w) ==
    /\ \/ pc[w] = "commit_rename"
       \/ pc[w] = "commit" /\ mode[w] = "Streaming" /\ tempOpen[w]
    /\ RenameOverTarget(w)
    /\ buffer' = [buffer EXCEPT ![w] = <<>>]
    /\ pc' = [pc EXCEPT ![w] = "committed"]
    /\ UNCHANGED <<lockVars, inpos, cfgVars, outVars, otherVars>>

\* a commit that reports its failure after the rename has taken place
CommitFailAfterRename(w) ==
    /\ pc[w] \in {"commit", "commit_write", "commit_rename"}
    /\ ExitWith(w, "WriteFailed")
    /\ RenameOverTarget(w)
    /\ buffer' = [buffer EXCEPT ![w] = <<>>]
    /\ DropFileLock(w)
    /\ UNCHANGED <<inpos, cfgVars, otherVars>>

\* any step of commit fails: WriteFailed
CommitFail(w) ==
    /\ pc[w] \in {"commit", "commit_write", "commit_rename"}
    /\ SessionFails(w, "WriteFailed")

\* execute_write returns Ok(()): _lock is dropped, the process exits 0
Release(w) ==
    /\ pc[w] = "committed"
    /\ DropFileLock(w)
    /\ pc' = [pc EXCEPT ![w] = "done"]
    /\ exitCode' = [exitCode EXCEPT ![w] = 0]
    /\ UNCHANGED <<fileVars, sessVars, cfgVars, err, otherVars>>

(* ------------------ clean_locks on the writers' lock path -------------- *)
\* visit_directory yields the entry (a regular file, is_lock_file)
HkVisit ==
    /\ pc[Hk] = "hk_idle"
    /\ lockIno # 0
    /\ pc' = [pc EXCEPT ![Hk] = "hk_open"]
    /\ cleaned' = 0
    /\ UNCHANGED <<lockVars, fileVars, sessVars, cfgVars, outVars, timeVars, scanVars, sideVars>>

\* is_orphaned: File::open(lock_path)
HkOpen ==
    /\ pc[Hk] = "hk_open"
    /\ IF lockIno = 0
       THEN /\ pc' = [pc EXCEPT ![Hk] = "hk_idle"]
            /\ UNCHANGED fd
       ELSE /\ pc' = [pc EXCEPT ![Hk] = "hk_probe"]
            /\ fd' = [fd EXCEPT ![Hk] = lockIno]
    /\ UNCHANGED <<lockIno, locked, fileVars, sessVars, cfgVars, outVars, otherVars>>

\* is_orphaned: file.try_lock_exclusive()
HkProbe ==
    /\ pc[Hk] = "hk_probe"
    /\ IF HeldByOther(Hk)
       THEN /\ pc' = [pc EXCEPT ![Hk] = "hk_idle"]
            /\ CloseLockHandle(Hk)
       ELSE /\ pc' = [pc EXCEPT ![Hk] = "hk_probed"]
            /\ locked' = [locked EXCEPT ![Hk] = TRUE]
            /\ UNCHANGED fd
    /\ UNCHANGED <<lockIno, fileVars, sessVars, cfgVars, outVars, otherVars>>

\* is_orphaned: the probe fails with another error, Err(MutxError::Io)
HkProbeError ==
    /\ pc[Hk] = "hk_probe"
    /\ pc' = [pc EXCEPT ![Hk] = "hk_idle"]
    /\ CloseLockHandle(Hk)
    /\ UNCHANGED <<lockIno, fileVars, sessVars, cfgVars, outVars, otherVars>>

\* is_orphaned returns Ok(true): its File is dropped, the probe lock is gone
HkProbeDrop ==
    /\ pc[Hk] = "hk_probed"
    /\ CloseLockHandle(Hk)
    /\ IF dryRun
       THEN /\ pc' = [pc EXCEPT ![Hk] = "hk_idle"]
            /\ cleaned' = cleaned + 1
       ELSE /\ pc' = [pc EXCEPT ![Hk] = "hk_remove"]
            /\ UNCHANGED cleaned
    /\ UNCHANGED <<lockIno, fileVars, sessVars, cfgVars, outVars, timeVars, scanVars, sideVars>>

\* clean_locks: fs::remove_file(path); NotFound is tolerated
HkRemove ==
    /\ pc[Hk] = "hk_remove"
    /\ IF lockIno # 0
       THEN lockIno' = 0 /\ cleaned' = cleaned + 1
       ELSE UNCHANGED <<lockIno, cleaned>>
    /\ pc' = [pc EXCEPT ![Hk] = "hk_idle"]
    /\ UNCHANGED <<fd, locked, fileVars, sessVars, cfgVars, outVars, timeVars, scanVars, sideVars>>

(* ------------------------------ Next ----------------------------------- *)
WriterNext(w) ==
    \/ OpenLockFile(w)
    \/ OpenLockFileFail(w)
    \/ LockWait(w)
    \/ LockNoWait(w)
    \/ LockPollTry(w)
    \/ LockPollWake(w)
    \/ LockError(w)
    \/ BeginSession(w)
    \/ BeginSessionFail(w)
    \/ CopyChunk(w)
    \/ ReadEof(w)
    \/ ReadFail(w)
    \/ WriteAllFail(w)
    \/ CommitOpenTemp(w)
    \/ CommitWriteBuffer(w)
    \/ CommitRename(w)
    \/ CommitFail(w)
    \/ Release(w)

HkNext ==
    \/ HkVisit
    \/ HkOpen
    \/ HkProbe
    \/ HkProbeError
    \/ HkProbeDrop
    \/ HkRemove

NextW == \E w \in Writers : WriterNext(w)

Next == NextW \/ HkNext

Spec == Init /\ [][Next]_vars

SpecW == Init /\ [][NextW]_vars

\* the writers alone, each scheduled again and again while it can take a
\* step: a process that is not blocked in flock or asleep keeps running
SpecLive == Init /\ [][NextW]_vars /\ \A w \in Writers : WF_vars(WriterNext(w))

(* ------------- the bounded-poll loop with its clock (SpecTimed) -------- *)
\* Writer 1 holds the lock and has committed; writer 2 runs execute_write
\* with --timeout.  Time is the poller's start.elapsed() in milliseconds;
\* thread::sleep lasts exactly the requested time and every other step
\* takes none.
Holder == CHOOSE w \in Writers : \A v \in Writers : w <= v
Poller == Holder + 1
Durations == {0, MaxDuration}
Caps == {0, MaxCap, DefaultMaxPoll}

InitTimed ==
    /\ pc = [p \in Procs |-> IF p = Hk THEN "hk_idle"
                             ELSE IF p = Holder THEN "committed" ELSE "open"]
    /\ strategy = [w \in Writers |-> IF w = Holder THEN "Wait" ELSE "Timeout"]
    /\ mode \in {m \in [Writers -> Modes] : \A w \in Writers \ {Poller} : m[w] = "Simple"}
    /\ dryRun = FALSE
    /\ lockIno = 1
    /\ fd = [p \in Procs |-> IF p = Holder THEN 1 ELSE 0]
    /\ locked = [p \in Procs |-> p = Holder]
    /\ targetExists = TRUE
    /\ target = Payload(Holder)
    /\ targetIno = Holder
    /\ inpos = [w \in Writers |-> IF w = Holder THEN PayloadLen ELSE 0]
    /\ buffer = [w \in Writers |-> <<>>]
    /\ tempOpen = [w \in Writers |-> FALSE]
    /\ tempData = [w \in Writers |-> <<>>]
    /\ err = [w \in Writers |-> "none"]
    /\ exitCode = [w \in Writers |-> -1]
    /\ cleaned = 0
    /\ duration \in Durations
    /\ maxPoll \in Caps
    /\ elapsed = 0 /\ wakeAt = 0 /\ polls = 0 /\ releasedAt = -1
    /\ cur = InitialInterval
    /\ ScanIdle

\* sleep_time without the cap: current_interval + jitter
SleepTimeUncapped(j) == cur + j

\* base_interval = current_interval.min(max_poll_interval); + jitter
SleepTime(j) == Min(cur, maxPoll) + j

\* a backoff that doubles the interval
BackoffDoubling(c) == c * 2

\* (current_interval.as_millis() as f64 * 1.5) as u64
Backoff(c) == (c * 3) \div 2

\* acquire returns Ok: start, current_interval and rng go out of scope
\* (polls and releasedAt stay as the record of how the wait went)
LoopLocalsDropped ==
    elapsed' = 0 /\ wakeAt' = 0 /\ cur' = 0 /\ UNCHANGED <<polls, releasedAt>>

\* a loop that gives up when its next sleep would end past the deadline
DeadlineNear == elapsed + Min(cur, maxPoll) >= duration

\* start.elapsed() >= config.duration
DeadlinePassed == elapsed >= duration

\* a loop that looks at the clock before it tries the lock
TimedPollTryClockFirst(w) ==
    /\ pc[w] = "lock"
    /\ strategy[w] = "Timeout"
    /\ IF DeadlinePassed
       THEN /\ ExitWith(w, "LockTimeout")
            /\ CloseLockHandle(w)
            /\ UNCHANGED <<lockIno, timeVars>>
       ELSE IF ~HeldByOther(w)
       THEN /\ locked' = [locked EXCEPT ![w] = TRUE]
            /\ pc' = [pc EXCEPT ![w] = "held"]
            /\ LoopLocalsDropped
            /\ UNCHANGED <<lockIno, fd, outVars, duration, maxPoll>>
       ELSE /\ polls < MaxPolls
            /\ \E j \in 0..(JitterRange - 1) : wakeAt' = elapsed + SleepTime(j)
            /\ pc' = [pc EXCEPT ![w] = "sleep"]
            /\ UNCHANGED <<lockVars, outVars, duration, maxPoll, elapsed, cur,
                           polls, releasedAt>>
    /\ UNCHANGED <<fileVars, sessVars, cfgVars, cleaned, scanVars, sideVars>>

\* one turn of the loop: try_lock_exclusive, then the timeout check, then
\* the sleep is started with jitter j
TimedPollTry(w) ==
    /\ pc[w] = "lock"
    /\ strategy[w] = "Timeout"
    /\ IF ~HeldByOther(w)
       THEN /\ locked' = [locked EXCEPT ![w] = TRUE]
            /\ pc' = [pc EXCEPT ![w] = "held"]
            /\ LoopLocalsDropped
            /\ UNCHANGED <<lockIno, fd, outVars, duration, maxPoll>>
       ELSE IF DeadlinePassed
       THEN /\ ExitWith(w, "LockTimeout")
            /\ CloseLockHandle(w)
            /\ UNCHANGED <<lockIno, timeVars>>
       ELSE /\ polls < MaxPolls
            /\ \E j \in 0..(JitterRange - 1) : wakeAt' = elapsed + SleepTime(j)
            /\ pc' = [pc EXCEPT ![w] = "sleep"]
            /\ UNCHANGED <<lockVars, outVars, duration, maxPoll, elapsed, cur,
                           polls, releasedAt>>
    /\ UNCHANGED <<fileVars, sessVars, cfgVars, cleaned, scanVars, sideVars>>

\* thread::sleep returns; current_interval is scaled for the next turn
TimedWake(w) ==
    /\ pc[w] = "sleep"
    /\ elapsed' = wakeAt
    /\ cur' = Backoff(cur)
    /\ polls' = polls + 1
    /\ pc' = [pc EXCEPT ![w] = "lock"]
    /\ UNCHANGED <<lockVars, fileVars, sessVars, cfgVars, outVars, cleaned,
                   duration, maxPoll, wakeAt, releasedAt, scanVars, sideVars>>

\* the holder's execute_write returns (its FileLock is dropped) at some
\* instant of the poller's current sleep, or right now if it is not asleep
HolderRelease ==
    /\ pc[Holder] = "committed"
    /\ DropFileLock(Holder)
    /\ pc' = [pc EXCEPT ![Holder] = "done"]
    /\ exitCode' = [exitCode EXCEPT ![Holder] = 0]
    /\ IF pc[Poller] = "sleep"
       THEN releasedAt' \in elapsed..wakeAt
       ELSE releasedAt' = elapsed
    /\ UNCHANGED <<fileVars, sessVars, cfgVars, err, cleaned, scanVars, sideVars,
                   duration, maxPoll, elapsed, wakeAt, cur, polls>>

PollerSession(w) ==
    \/ OpenLockFile(w)
    \/ BeginSession(w)
    \/ CopyChunk(w)
    \/ ReadEof(w)
    \/ CommitOpenTemp(w)
    \/ CommitWriteBuffer(w)
    \/ CommitRename(w)
    \/ Release(w)

NextTimed ==
    \/ TimedPollTry(Poller)
    \/ TimedWake(Poller)
    \/ HolderRelease
    \/ PollerSession(Poller)

SpecTimed == InitTimed /\ [][NextTimed]_vars

(* ------------------ clean_locks over a directory (SpecHK) -------------- *)
\* The scan meets NumEntries directory entries, one after the other.  Each
\* is described by its file name, where it sits, the age of its mtime in
\* seconds (-1: mtime lies in the future), whether a live FileLock holds it
\* during the scan, and which of its system calls fails.
LockName == <<"a", ".", "l", "o", "c", "k">>
Names == {LockName, <<".", "l", "o", "c", "k">>, <<"l", "o", "c", "k">>,
          <<"a", ".", "l", "o", "c", "k", ".", "b">>}
Places == {"file", "symlink", "in_subdir", "in_linked_dir"}
Faults == {"none", "probe", "unlink_notfound", "unlink_other"}

Entries == [name : Names, place : Places, age : (-1)..(MaxAge + 1),
            held : BOOLEAN, fault : Faults]

InitHK ==
    /\ pc = [p \in Procs |-> IF p = Hk THEN "hk_idle" ELSE "open"]
    /\ strategy = [w \in Writers |-> "Wait"]
    /\ mode = [w \in Writers |-> "Simple"]
    /\ dryRun \in BOOLEAN
    /\ lockIno = 0
    /\ fd = [p \in Procs |-> 0]
    /\ locked = [p \in Procs |-> FALSE]
    /\ targetExists = FALSE
    /\ target = <<>>
    /\ targetIno = 0
    /\ inpos = [w \in Writers |-> 0]
    /\ buffer = [w \in Writers |-> <<>>]
    /\ tempOpen = [w \in Writers |-> FALSE]
    /\ tempData = [w \in Writers |-> <<>>]
    /\ err = [w \in Writers |-> "none"]
    /\ exitCode = [w \in Writers |-> -1]
    /\ cleaned = 0
    /\ TimeIdle
    /\ olderThan \in {{}} \cup {{a} : a \in 0..MaxAge}
    /\ recursive \in BOOLEAN
    /\ scanIdx = 0 /\ ent = NoEntry /\ reported = {} /\ removed = {}
    /\ SideIdle

\* Path::extension: the part after the last dot, unless there is no dot or
\* the only dot leads the name (<<>> stands for None)
LastDot(n) == IF \E i \in 1..Len(n) : n[i] = "."
              THEN CHOOSE i \in 1..Len(n) :
                       n[i] = "." /\ \A k \in (i + 1)..Len(n) : n[k] # "."
              ELSE 0

Extension(n) == IF LastDot(n) <= 1 THEN <<>> ELSE SubSeq(n, LastDot(n) + 1, Len(n))

\* is_lock_file: path.extension() == Some("lock")
IsLockFile(n) == Extension(n) = <<"l", "o", "c", "k">>

\* visit_directory that asks the path (stat) instead of the entry for its
\* type, and so follows symlinks
ReachedByStat(e) ==
    \/ e.place \in {"file", "symlink"}
    \/ (e.place \in {"in_subdir", "in_linked_dir"} /\ recursive)

\* visit_directory: symlinks are skipped, directories are entered only when
\* recursive, regular files go to the visitor
Reached(e) == e.place = "file" \/ (e.place = "in_subdir" /\ recursive)

\* is_orphaned that takes a lock refused for contention as its own
IsOrphanedIgnoringHolder(e) ==
    IF olderThan # {} /\ e.age >= 0 /\ \E a \in olderThan : e.age < a
    THEN "no"
    ELSE IF e.fault = "probe" THEN "err" ELSE "yes"

\* is_orphaned: age filter, then File::open and try_lock_exclusive
IsOrphaned(e) ==
    IF olderThan # {} /\ e.age >= 0 /\ \E a \in olderThan : e.age < a
    THEN "no"
    ELSE IF e.fault = "probe" THEN "err"
    ELSE IF e.held THEN "no" ELSE "yes"

\* clean_locks' visitor on one entry yielded by read_dir
VisitEntry ==
    /\ scanIdx < NumEntries
    /\ \E e \in Entries :
        LET orphan == Reached(e) /\ IsLockFile(e.name) /\ IsOrphaned(e) = "yes"
            unlinked == orphan /\ ~dryRun /\ e.fault = "none"
        IN  /\ ent' = e
            /\ scanIdx' = scanIdx + 1
            /\ removed' = IF unlinked THEN removed \cup {scanIdx + 1} ELSE removed
            /\ reported' = IF orphan /\ (dryRun \/ unlinked)
                           THEN reported \cup {scanIdx + 1} ELSE reported
    /\ UNCHANGED <<pc, lockVars, fileVars, sessVars, cfgVars, outVars, cleaned,
                   timeVars, olderThan, recursive, sideVars>>

NextHK == VisitEntry

SpecHK == InitHK /\ [][NextHK]_vars

(* ------------------- create_backup in the pipeline (SpecB) ------------- *)
\* Writers of one target, some with --backup.  The backup is named
\* {target}{suffix} next to the target (no directory, no timestamp); it is
\* staged at backup_path.with_extension("tmp") and renamed into place.
TargetNames == {<<"a", ".", "x">>, <<"a", ".", "t", "m", "p">>}
Suffixes == {<<".", "b">>, <<"~">>}

InitB ==
    /\ pc = [p \in Procs |-> IF p = Hk THEN "hk_idle" ELSE "open"]
    /\ strategy \in [Writers -> Strategies]
    /\ mode \in [Writers -> Modes]
    /\ dryRun = FALSE
    /\ lockIno \in {0, 1}
    /\ fd = [p \in Procs |-> 0]
    /\ locked = [p \in Procs |-> FALSE]
    /\ targetExists \in BOOLEAN
    /\ target = IF targetExists THEN OldContent ELSE <<>>
    /\ targetIno = 0
    /\ inpos = [w \in Writers |-> 0]
    /\ buffer = [w \in Writers |-> <<>>]
    /\ tempOpen = [w \in Writers |-> FALSE]
    /\ tempData = [w \in Writers |-> <<>>]
    /\ err = [w \in Writers |-> "none"]
    /\ exitCode = [w \in Writers |-> -1]
    /\ cleaned = 0
    /\ TimeIdle
    /\ olderThan = {} /\ recursive = FALSE /\ scanIdx = 0
    /\ ent = NoEntry /\ reported = {} /\ removed = {}
    /\ SweepIdle
    /\ backupOn \in [Writers -> BOOLEAN]
    /\ tgtName \in TargetNames
    /\ suffix \in Suffixes
    /\ backedUp = [w \in Writers |-> FALSE]
    /\ bakExists = FALSE /\ bak = <<>> /\ stageExists = FALSE /\ stage = <<>>
    /\ ArgIdle

\* Local::now().format("%Y%m%d_%H%M%S"), the same second for every backup
Stamp == <<"2", "0", "2", "4", "0", "1", "0", "1", "_", "0", "0", "0", "0", "0", "0">>

\* generate_backup_path: format!("{}.{}{}", filename, timestamp, suffix) or
\* format!("{}{}", filename, suffix)
BackupName == tgtName \o (IF stamped THEN <<".">> \o Stamp ELSE <<>>) \o suffix

\* generate_backup_path: dir.join(backup_name), or source.parent().join(..)
BackupBesideTarget == bakDir = "parent"

\* Path::with_extension: the file stem (the name up to its last dot, the
\* whole name when it has no dot past the first character), ".", extension
WithExtension(n, ext) ==
    (IF LastDot(n) <= 1 THEN n ELSE SubSeq(n, 1, LastDot(n) - 1)) \o <<".">> \o ext

\* temp_backup = backup_path.with_extension("tmp")
StagingName == WithExtension(BackupName, <<"t", "m", "p">>)

\* two of the three paths of create_backup are one path
StagingIsTarget == BackupBesideTarget /\ StagingName = tgtName

StagingIsBackup == StagingName = BackupName

BackupIsTarget == BackupBesideTarget /\ BackupName = tgtName

\* create_backup returns Err: execute_write returns it, the lock is dropped
BackupFails(w, e) ==
    /\ ExitWith(w, e)
    /\ DropFileLock(w)
    /\ UNCHANGED <<sessVars, cfgVars, cleaned, timeVars, scanVars, sweepVars,
                   backupOn, tgtName, suffix, backedUp, argVars>>

\* create_backup of an earlier revision: a missing source is no error
BackupBeginTolerant(w) ==
    /\ pc[w] = "backup"
    /\ pc' = [pc EXCEPT ![w] = IF targetExists THEN "bk_copy" ELSE "held"]
    /\ UNCHANGED <<lockVars, fileVars, sessVars, cfgVars, outVars, otherVars>>

\* create_backup: source.exists(), is_file(), generate_backup_path,
\* create_dir_all(parent)
BackupBegin(w) ==
    /\ pc[w] = "backup"
    /\ IF targetExists
       THEN /\ pc' = [pc EXCEPT ![w] = "bk_copy"]
            /\ UNCHANGED <<lockVars, fileVars, sessVars, cfgVars, outVars, otherVars>>
       ELSE /\ BackupFails(w, "PathNotFound")
            /\ UNCHANGED <<fileVars, bakFiles>>

\* fs::copy(source, &temp_backup): the destination is opened with create
\* and truncate, then the source's bytes are copied.  When the staging path
\* is the source itself, the source is what gets truncated (std documents
\* that it "will likely get truncated").
BackupCopy(w) ==
    /\ pc[w] = "bk_copy"
    /\ IF StagingIsTarget
       THEN /\ target' \in {<<>>, target}
            /\ UNCHANGED <<targetExists, targetIno, bakFiles>>
       ELSE IF StagingIsBackup
       THEN /\ bakExists' = TRUE /\ bak' = target
            /\ UNCHANGED <<fileVars, stageExists, stage>>
       ELSE /\ stageExists' = TRUE /\ stage' = target
            /\ UNCHANGED <<fileVars, bakExists, bak>>
    /\ pc' = [pc EXCEPT ![w] = "bk_rename"]
    /\ UNCHANGED <<lockVars, sessVars, cfgVars, outVars, cleaned, timeVars, scanVars,
                   sweepVars, backupOn, tgtName, suffix, backedUp, argVars>>

\* fs::copy fails: BackupFailed; what it wrote to the staging path stays
BackupCopyFail(w) ==
    /\ pc[w] = "bk_copy"
    /\ ~StagingIsTarget /\ ~StagingIsBackup
    /\ \/ UNCHANGED <<stageExists, stage>>
       \/ \E n \in 0..Len(target) :
            stageExists' = TRUE /\ stage' = SubSeq(target, 1, n)
    /\ BackupFails(w, "BackupFailed")
    /\ UNCHANGED <<fileVars, bakExists, bak>>

\* fs::rename(&temp_backup, &backup_path); Ok(backup_path).  When the
\* backup path is the source, the staged copy replaces the source.
BackupRename(w) ==
    /\ pc[w] = "bk_rename"
    /\ IF BackupIsTarget
       THEN IF StagingIsTarget
            THEN UNCHANGED <<fileVars, bakFiles>>
            ELSE /\ targetExists' = TRUE /\ target' = stage /\ targetIno' = w
                 /\ stageExists' = FALSE /\ stage' = <<>>
                 /\ UNCHANGED <<bakExists, bak>>
       ELSE IF StagingIsTarget
       THEN /\ bakExists' = TRUE /\ bak' = target
            /\ targetExists' = FALSE /\ target' = <<>>
            /\ UNCHANGED <<targetIno, stageExists, stage>>
       ELSE IF StagingIsBackup
       THEN UNCHANGED <<fileVars, bakFiles>>
       ELSE /\ bakExists' = TRUE /\ bak' = stage
            /\ stageExists' = FALSE /\ stage' = <<>>
            /\ UNCHANGED fileVars
    /\ backedUp' = [backedUp EXCEPT ![w] = TRUE]
    /\ pc' = [pc EXCEPT ![w] = "held"]
    /\ UNCHANGED <<lockVars, sessVars, cfgVars, outVars, cleaned, timeVars, scanVars,
                   sweepVars, backupOn, tgtName, suffix, argVars>>

\* fs::rename fails: the staging file is removed, BackupFailed
BackupRenameFail(w) ==
    /\ pc[w] = "bk_rename"
    /\ ~StagingIsTarget /\ ~StagingIsBackup
    /\ stageExists' = FALSE /\ stage' = <<>>
    /\ BackupFails(w, "BackupFailed")
    /\ UNCHANGED <<fileVars, bakExists, bak>>

WriterNextB(w) ==
    \/ WriterNext(w)
    \/ BackupBegin(w)
    \/ BackupCopy(w)
    \/ BackupCopyFail(w)
    \/ BackupRename(w)
    \/ BackupRenameFail(w)

NextB == \E w \in Writers : WriterNextB(w)

SpecB == InitB /\ [][NextB]_vars

(* ------------- create_backup under every configuration (SpecBk) -------- *)
\* Writers that wait for the lock, with any suffix, with or without the
\* timestamp, the backup beside the target or in a directory of its own.
AnySuffix == Suffixes \cup {<<>>, <<".">>}
BackupDirs == {"parent", "other"}

InitBk ==
    /\ pc = [p \in Procs |-> IF p = Hk THEN "hk_idle" ELSE "open"]
    /\ strategy = [w \in Writers |-> "Wait"]
    /\ \E m \in Modes : mode = [w \in Writers |-> m]
    /\ dryRun = FALSE
    /\ lockIno = 0
    /\ fd = [p \in Procs |-> 0]
    /\ locked = [p \in Procs |-> FALSE]
    /\ targetExists \in BOOLEAN
    /\ target = IF targetExists THEN OldContent ELSE <<>>
    /\ targetIno = 0
    /\ inpos = [w \in Writers |-> 0]
    /\ buffer = [w \in Writers |-> <<>>]
    /\ tempOpen = [w \in Writers |-> FALSE]
    /\ tempData = [w \in Writers |-> <<>>]
    /\ err = [w \in Writers |-> "none"]
    /\ exitCode = [w \in Writers |-> -1]
    /\ cleaned = 0
    /\ TimeIdle
    /\ olderThan = {} /\ recursive = FALSE /\ scanIdx = 0
    /\ ent = NoEntry /\ reported = {} /\ removed = {}
    /\ SweepIdle
    /\ backupOn \in [Writers -> BOOLEAN]
    /\ tgtName \in TargetNames
    /\ suffix \in AnySuffix
    /\ backedUp = [w \in Writers |-> FALSE]
    /\ bakExists = FALSE /\ bak = <<>> /\ stageExists = FALSE /\ stage = <<>>
    /\ PathIdle
    /\ wrPlan = <<>>
    /\ stamped \in BOOLEAN
    /\ bakDir \in BackupDirs

WriterNextBk(w) ==
    \/ OpenLockFile(w)
    \/ LockWait(w)
    \/ BackupBegin(w)
    \/ BackupCopy(w)
    \/ BackupCopyFail(w)
    \/ BackupRename(w)
    \/ BackupRenameFail(w)
    \/ BeginSession(w)
    \/ CopyChunk(w)
    \/ ReadEof(w)
    \/ CommitOpenTemp(w)
    \/ CommitWriteBuffer(w)
    \/ CommitRename(w)
    \/ Release(w)

NextBk == \E w \in Writers : WriterNextBk(w)

SpecBk == InitBk /\ [][NextBk]_vars

(* --------- execute_write up to FileLock::acquire (SpecPre) ------------- *)
OutArgs == {<<"out">>, <<".", "out">>, OutFile, <<"/", "nd", "out">>, SlPath}
LockArgs == {<<>>, LkFile, <<"out">>, OutFile, SlPath}
InArgs == {<<>>, InFile, Missing, Cwd, SlPath}

\* where /d/sl may lead, given the arguments that name it
LinkChoices(o, l, i) ==
    IF SlPath \notin {o, l, i} THEN {<<>>}
    ELSE {r \in {OutFile, LkFile, InFile, Missing} :
            /\ o = SlPath => r \in {OutFile, Missing}
            /\ l = SlPath => r \in {LkFile, OutFile, Missing}
            /\ i = SlPath => r \in {InFile, Missing}}

PrePcs == {"pre_input", "pre_output", "pre_lockpath", "pre_validate", "pre_locksym"}

\* one invocation of `mutx write`, about to run execute_write
InitPre ==
    /\ pc = [p \in Procs |-> IF p = Hk THEN "hk_idle"
                             ELSE IF p = Holder THEN "pre_input" ELSE "open"]
    /\ strategy = [w \in Writers |-> "Wait"]
    /\ \E m \in Modes : mode = [w \in Writers |-> m]
    /\ dryRun = FALSE
    /\ lockIno = 0
    /\ fd = [p \in Procs |-> 0]
    /\ locked = [p \in Procs |-> FALSE]
    /\ targetExists \in BOOLEAN
    /\ target = IF targetExists THEN OldContent ELSE <<>>
    /\ targetIno = 0
    /\ inpos = [w \in Writers |-> 0]
    /\ buffer = [w \in Writers |-> <<>>]
    /\ tempOpen = [w \in Writers |-> FALSE]
    /\ tempData = [w \in Writers |-> <<>>]
    /\ err = [w \in Writers |-> "none"]
    /\ exitCode = [w \in Writers |-> -1]
    /\ cleaned = 0
    /\ TimeIdle
    /\ olderThan = {} /\ recursive = FALSE /\ scanIdx = 0
    /\ ent = NoEntry /\ reported = {} /\ removed = {}
    /\ SweepIdle /\ BakIdle
    /\ outArg \in OutArgs
    /\ lockArg \in LockArgs
    /\ inArg \in InArgs
    /\ linkTo \in LinkChoices(outArg, lockArg, inArg)
    /\ lkExists \in (IF Resolve(lockArg) = LkFile THEN BOOLEAN ELSE {FALSE})
    /\ cacheDir \in (IF lockArg = <<>> THEN BOOLEAN ELSE {TRUE})
    /\ lockPath = <<>>
    /\ follow \in BOOLEAN
    /\ followLock \in BOOLEAN
    /\ wrPlan = <<>> /\ stamped = FALSE /\ bakDir = "parent"
    /\ targetExists => TargetFile = OutFile

\* execute_write returns Err before FileLock::acquire: nothing was opened
PreFails(w, e) ==
    /\ ExitWith(w, e)
    /\ UNCHANGED <<lockVars, fileVars, sessVars, cfgVars, cleaned, timeVars, scanVars,
                   sweepVars, bakVars, wrPlan, stamped, bakDir>>

PrePass(w, next) ==
    /\ pc' = [pc EXCEPT ![w] = next]
    /\ UNCHANGED <<fileVars, sessVars, cfgVars, outVars, cleaned, timeVars, scanVars,
                   sweepVars, bakVars, wrPlan, stamped, bakDir>>

\* --follow-symlinks taken alone
FollowOwnFlagOnly == follow

\* follow_symlinks_effective = follow_lock_symlinks || follow_symlinks
FollowEffective == followLock \/ follow

\* the symlink test made on fs::metadata, which follows the symlink
SymlinkRefusedByStat(p, policy) == Stat(p) = "link" /\ ~policy

\* check_symlink / check_lock_symlink return Err: the entry itself is a
\* symlink and the policy does not follow
SymlinkRefused(p, policy) == Lstat(p) = "link" /\ ~policy

\* input_path.exists(), input_path.is_file(), check_symlink(input_path, ..)
CheckInput(w) ==
    /\ pc[w] = "pre_input"
    /\ IF inArg = <<>> THEN PrePass(w, "pre_output")
       ELSE IF ~Exists(inArg) THEN PreFails(w, "PathNotFound")
       ELSE IF Stat(inArg) # "file" THEN PreFails(w, "NotAFile")
       ELSE IF SymlinkRefused(inArg, FollowEffective)
       THEN PreFails(w, "SymlinkNotAllowed")
       ELSE PrePass(w, "pre_output")
    /\ UNCHANGED <<lockVars, argVars>>

\* check_symlink(&output, follow_symlinks_effective)
CheckOutput(w) ==
    /\ pc[w] = "pre_output"
    /\ IF SymlinkRefused(outArg, FollowEffective)
       THEN PreFails(w, "SymlinkNotAllowed")
       ELSE PrePass(w, "pre_lockpath")
    /\ UNCHANGED <<lockVars, argVars>>

\* derive_lock_path: output_path.canonicalize(), or else the canonical
\* parent joined with the file name
CanonicalFor(p) ==
    IF Exists(p) THEN Resolve(p)
    ELSE Resolve(Parent(p)) \o <<FileName(p)>>

DerivedCanonical == CanonicalFor(outArg)

\* derive_lock_path returns PathNotFound(parent)
ParentNotFoundFor(p) == ~Exists(p) /\ ~Exists(Parent(p))

ParentNotFound == ParentNotFoundFor(outArg)

\* cache_dir.join(lock_filename): a name that is one-to-one in the
\* canonical path (its hash)
DerivedLockPath == CacheDir \o DerivedCanonical

\* derive_lock_path(p, false): Ok(lock path), or <<>> for Err(PathNotFound)
DeriveLockPath(p) == IF ParentNotFoundFor(p) THEN <<>> ELSE CacheDir \o CanonicalFor(p)

\* let lock_path = custom_lock, or derive_lock_path(&output, false)? with
\* get_lock_cache_dir creating the cache directory
BindLockPath(w) ==
    /\ pc[w] = "pre_lockpath"
    /\ IF lockArg # <<>>
       THEN /\ lockPath' = lockArg
            /\ cacheDir' = cacheDir
            /\ PrePass(w, "pre_validate")
       ELSE IF ParentNotFound
       THEN /\ PreFails(w, "PathNotFound")
            /\ UNCHANGED <<lockPath, cacheDir>>
       ELSE \/ /\ lockPath' = DerivedLockPath
               /\ cacheDir' = TRUE
               /\ PrePass(w, "pre_validate")
            \/ /\ ~cacheDir
               /\ PreFails(w, "CacheDirectoryFailed")
               /\ UNCHANGED <<lockPath, cacheDir>>
    /\ UNCHANGED <<lockVars, outArg, lockArg, inArg, linkTo, lkExists, follow, followLock,
                   wrPlan, stamped, bakDir>>

\* validate_lock_path returns LockPathCollision
LockCollides == Components(CanonicalOrRaw(lockPath)) = Components(CanonicalOrRaw(outArg))

\* validate_lock_path(&lock_path, &output)
ValidateLockPath(w) ==
    /\ pc[w] = "pre_validate"
    /\ IF LockCollides
       THEN PreFails(w, "LockPathCollision")
       ELSE PrePass(w, "pre_locksym")
    /\ UNCHANGED <<lockVars, argVars>>

\* check_lock_symlink(&lock_path, follow_lock_symlinks_effective); on Ok
\* FileLock::acquire is next, and lockIno is the inode its open() will find
CheckLockSymlink(w) ==
    /\ pc[w] = "pre_locksym"
    /\ IF SymlinkRefused(lockPath, followLock)
       THEN PreFails(w, "LockSymlinkNotAllowed") /\ UNCHANGED lockVars
       ELSE /\ PrePass(w, "open")
            /\ lockIno' = IF FileAt(Resolve(lockPath)) THEN FreshIno ELSE 0
            /\ UNCHANGED <<fd, locked>>
    /\ UNCHANGED argVars

PreNext(w) ==
    \/ CheckInput(w)
    \/ CheckOutput(w)
    \/ BindLockPath(w)
    \/ ValidateLockPath(w)
    \/ CheckLockSymlink(w)

\* the rest of execute_write for the strategy LockStrategy::Wait
WaitingWriterNext(w) ==
    \/ OpenLockFile(w)
    \/ OpenLockFileFail(w)
    \/ LockWait(w)
    \/ LockError(w)
    \/ BeginSession(w)
    \/ BeginSessionFail(w)
    \/ CopyChunk(w)
    \/ ReadEof(w)
    \/ ReadFail(w)
    \/ WriteAllFail(w)
    \/ CommitOpenTemp(w)
    \/ CommitWriteBuffer(w)
    \/ CommitRename(w)
    \/ CommitFail(w)
    \/ Release(w)

NextPre == PreNext(Holder) \/ WaitingWriterNext(Holder)

SpecPre == InitPre /\ [][NextPre]_vars

(* ------------- clean_locks and clean_backups as scans (SpecScan) ------- *)
\* A scan reads up to NumFiles directory entries and then acts.  After a
\* dry run a second, real scan of the same directory may follow; the clock
\* may have advanced by a second in between.
PlainBackup == <<"a", ".", "m", "u", "t", "x", ".", "b", "a", "c", "k", "u", "p">>
StampedBackup == <<"a", ".", "2", "0", "2", "4", "0", "1", "0", "1", "_", "0", "0", "0", "0", "0", "0", ".", "m", "u", "t", "x", ".", "b", "a", "c", "k", "u", "p">>
OtherBackup == <<"b", ".", "m", "u", "t", "x", ".", "b", "a", "c", "k", "u", "p">>
LookAlike == <<"a", ".", "b", "a", "k">>
UserBackup == <<"a", ".", "b", "a", "c", "k", "u", "p">>
BakSuffix == <<".", "b", "a", "k">>

ScanNames == IF op = "locks" THEN {LockName}
             ELSE {PlainBackup, StampedBackup, OtherBackup}

ScanFaults == {"none", "probe", "unlink_other"}

\* Directory entries a scan may meet.  Files with a lock or backup name in
\* the root or in a subdirectory come with every age, holder and fault;
\* symlinks, files behind a symlinked directory and files with another name
\* come as one representative each, and so do a file that vanishes before it
\* is unlinked and an entry read_dir or file_type fails on.
ScanUniverse ==
    [name : ScanNames, place : {"file", "in_subdir"}, age : (-1)..(MaxAge + 1),
     held : IF op = "locks" THEN BOOLEAN ELSE {FALSE}, fault : ScanFaults]
    \cup [name : ScanNames, place : {"symlink", "in_linked_dir"}, age : {MaxAge + 1},
          held : {FALSE}, fault : {"none"}]
    \cup [name : {LookAlike}, place : Places, age : {MaxAge + 1},
          held : {FALSE}, fault : {"none"}]
    \cup [name : {UserBackup}, place : {"file"}, age : {MaxAge + 1},
          held : {FALSE}, fault : {"none"}]
    \cup [name : ScanNames, place : {"file"}, age : {MaxAge + 1},
          held : {FALSE}, fault : {"unlink_notfound"}]
    \cup [name : {LookAlike}, place : {"file"}, age : {MaxAge + 1},
          held : {FALSE}, fault : {"entry"}]

\* what read_dir may yield next: a name not yet present in that place
ScanEntries ==
    {e \in ScanUniverse :
        \A i \in 1..Len(listing) :
            ~(listing[i].name = e.name /\ listing[i].place = e.place)}

InitScan ==
    /\ pc = [p \in Procs |-> IF p = Hk THEN "hk_idle" ELSE "open"]
    /\ strategy = [w \in Writers |-> "Wait"]
    /\ mode = [w \in Writers |-> "Simple"]
    /\ dryRun \in BOOLEAN
    /\ lockIno = 0
    /\ fd = [p \in Procs |-> 0]
    /\ locked = [p \in Procs |-> FALSE]
    /\ targetExists = FALSE
    /\ target = <<>>
    /\ targetIno = 0
    /\ inpos = [w \in Writers |-> 0]
    /\ buffer = [w \in Writers |-> <<>>]
    /\ tempOpen = [w \in Writers |-> FALSE]
    /\ tempData = [w \in Writers |-> <<>>]
    /\ err = [w \in Writers |-> "none"]
    /\ exitCode = [w \in Writers |-> -1]
    /\ cleaned = 0
    /\ TimeIdle
    /\ olderThan \in {{}} \cup {{a} : a \in 0..MaxAge}
    /\ recursive \in BOOLEAN
    /\ scanIdx = 0 /\ ent = NoEntry /\ reported = {} /\ removed = {}
    /\ op \in {"locks", "backups"}
    /\ keepNewest \in IF op = "locks" THEN {{}}
                      ELSE {{}} \cup {{k} : k \in 0..MaxKeep}
    /\ phase = "visit" /\ listing = <<>> /\ visited = {} /\ collected = <<>>
    /\ doneKeys = {} /\ run = 1 /\ dryReported = {} /\ lapse = 0
    /\ hkSuffix = BackupSuffix
    /\ BakIdle /\ ArgIdle

EndsWith(n, s) ==
    /\ Len(n) >= Len(s)
    /\ SubSeq(n, Len(n) - Len(s) + 1, Len(n)) = s

\* is_backup_file: name.ends_with(".mutx.backup"), whatever suffix the
\* command was given
IsBackupFile(n) == EndsWith(n, BackupSuffix)

Digits == {"0", "1", "2", "3", "4", "5", "6", "7", "8", "9"}

\* YYYYMMDD_HHMMSS: 15 characters, '_' at index 8, digits elsewhere
IsTimestamp(t) ==
    /\ Len(t) = 15
    /\ t[9] = "_"
    /\ \A i \in (1..8) \cup (10..15) : t[i] \in Digits

\* extract_base_filename: strip the suffix, then a trailing .timestamp
ExtractBaseFilename(n) ==
    IF ~EndsWith(n, BackupSuffix) THEN n
    ELSE LET rest == SubSeq(n, 1, Len(n) - Len(BackupSuffix))
             d == LastDot(rest)
         IN  IF d = 0 THEN rest
             ELSE IF IsTimestamp(SubSeq(rest, d + 1, Len(rest)))
                  THEN SubSeq(rest, 1, d - 1)
                  ELSE rest

\* a scan whose dry-run flag does not keep it from unlinking
UnlinkedEvenDry(fault) == fault = "none"

\* the scheduled path is unlinked: not a dry run, and fs::remove_file is Ok
Unlinked(fault) == ~dryRun /\ fault = "none"

\* visit_directory: `entry?` or `entry.file_type()?` is Err
EntryFails(e) == e.fault = "entry"

\* a visitor that hands the error of a file on to visit_directory
VisitorReturnsPropagating(failure) == IF failure = "none" THEN "Ok" ELSE "Err"

\* the visitor closures of clean_locks and clean_backups log what failed on
\* the file ("none": nothing did) and end in Ok(())
VisitorReturns(failure) == "Ok"

\* visit_directory after the visitor: `visitor(&path)?`
PhaseAfterVisit(e, failure) ==
    IF EntryFails(e) \/ VisitorReturns(failure) = "Err" THEN "failed" ELSE phase

\* the entry as the scan of this run meets it
Yielded(e) == ent' = e /\ scanIdx' = scanIdx + 1 /\ listing' =
                  IF run = 1 THEN Append(listing, e) ELSE listing

NextOfListing == IF run = 1 THEN ScanEntries ELSE {listing[scanIdx + 1]}

\* clean_locks: visit_directory yields one entry to the visitor
CleanLocksVisit ==
    /\ op = "locks" /\ phase = "visit"
    /\ scanIdx < (IF run = 1 THEN NumFiles ELSE Len(listing))
    /\ \E e \in NextOfListing :
        LET seen == Reached(e) /\ ~EntryFails(e)
            probed == seen /\ IsLockFile(e.name)
            orphan == probed /\ IsOrphaned(e) = "yes"
            unlinked == orphan /\ Unlinked(e.fault)
            failure == IF probed /\ IsOrphaned(e) = "err" THEN "probe"
                       ELSE IF orphan /\ ~dryRun THEN e.fault ELSE "none"
        IN  /\ Yielded(e)
            /\ phase' = PhaseAfterVisit(e, failure)
            /\ visited' = IF seen THEN visited \cup {scanIdx + 1} ELSE visited
            /\ removed' = IF unlinked THEN removed \cup {scanIdx + 1} ELSE removed
            /\ reported' = IF orphan /\ (dryRun \/ unlinked)
                           THEN reported \cup {scanIdx + 1} ELSE reported
    /\ UNCHANGED <<pc, lockVars, fileVars, sessVars, cfgVars, outVars, cleaned,
                   timeVars, olderThan, recursive, op, keepNewest,
                   collected, doneKeys, run, dryReported, lapse, hkSuffix, bakVars, argVars>>

\* clean_backups, first pass: the visitor files the entry under its key
CleanBackupsVisit ==
    /\ op = "backups" /\ phase = "visit"
    /\ scanIdx < (IF run = 1 THEN NumFiles ELSE Len(listing))
    /\ \E e \in NextOfListing :
        LET seen == Reached(e) /\ ~EntryFails(e)
            failure == IF seen /\ IsBackupFile(e.name) /\ e.fault = "probe"
                       THEN "probe" ELSE "none"
        IN
        /\ Yielded(e)
        /\ phase' = PhaseAfterVisit(e, failure)
        /\ visited' = IF seen THEN visited \cup {scanIdx + 1} ELSE visited
        /\ collected' =
              IF seen /\ IsBackupFile(e.name) /\ e.fault # "probe"
              THEN Append(collected, [idx |-> scanIdx + 1, age |-> e.age,
                                      key |-> ExtractBaseFilename(e.name),
                                      fault |-> e.fault])
              ELSE collected
    /\ UNCHANGED <<pc, lockVars, fileVars, sessVars, cfgVars, outVars, cleaned,
                   timeVars, olderThan, recursive, reported, removed, op,
                   keepNewest, doneKeys, run, dryReported, lapse, hkSuffix, bakVars, argVars>>

\* read_dir is exhausted
EndOfDirectory ==
    /\ phase = "visit"
    /\ run = 2 => scanIdx = Len(listing)
    /\ phase' = IF op = "backups" THEN "process" ELSE "done"
    /\ UNCHANGED <<pc, lockVars, fileVars, sessVars, cfgVars, outVars, cleaned,
                   timeVars, scanVars, op, keepNewest, listing, visited,
                   collected, doneKeys, run, dryReported, lapse, hkSuffix, bakVars, argVars>>

\* group.sort_by(|a, b| a.1.cmp(&b.1)): oldest first
RECURSIVE SortOldestFirst(_)
SortOldestFirst(g) ==
    IF g = <<>> THEN <<>>
    ELSE LET rest == SortOldestFirst(SubSeq(g, 1, Len(g) - 1))
             x == g[Len(g)]
             k == Cardinality({i \in 1..Len(rest) : rest[i].age >= x.age})
         IN  SubSeq(rest, 1, k) \o <<x>> \o SubSeq(rest, k + 1, Len(rest))

\* group.sort_by(|a, b| b.1.cmp(&a.1)): a stable sort, newest mtime
\* (smallest age) first
RECURSIVE SortNewestFirst(_)
SortNewestFirst(g) ==
    IF g = <<>> THEN <<>>
    ELSE LET rest == SortNewestFirst(SubSeq(g, 1, Len(g) - 1))
             x == g[Len(g)]
             k == Cardinality({i \in 1..Len(rest) : rest[i].age <= x.age})
         IN  SubSeq(rest, 1, k) \o <<x>> \o SubSeq(rest, k + 1, Len(rest))

GroupOf(k) == SelectSeq(collected, LAMBDA it : it.key = k)

\* should_delete that takes every policy that is set to agree
ShouldDeleteWhenAllAgree(idx, it) ==
    /\ keepNewest # {} \/ olderThan # {}
    /\ \A keep \in keepNewest : idx >= keep
    /\ \A maxAge \in olderThan : it.age >= 0 /\ it.age > maxAge

\* should_delete for the file at 0-based index idx of its sorted group
ShouldDelete(idx, it) ==
    \/ \E keep \in keepNewest : idx >= keep
    \/ \E maxAge \in olderThan : it.age >= 0 /\ it.age > maxAge

\* clean_backups, second pass: one group of the map, sorted, then every
\* file of it deleted or kept
ProcessGroup ==
    /\ op = "backups" /\ phase = "process"
    /\ \E k \in {collected[i].key : i \in 1..Len(collected)} \ doneKeys :
        LET group == SortNewestFirst(GroupOf(k))
            doomed == {i \in 1..Len(group) : ShouldDelete(i - 1, group[i])}
            unlinked == {i \in doomed : Unlinked(group[i].fault)}
        IN  /\ removed' = removed \cup {group[i].idx : i \in unlinked}
            /\ reported' = reported \cup
                  {group[i].idx : i \in IF dryRun THEN doomed ELSE unlinked}
            /\ doneKeys' = doneKeys \cup {k}
    /\ UNCHANGED <<pc, lockVars, fileVars, sessVars, cfgVars, outVars, cleaned,
                   timeVars, olderThan, recursive, scanIdx, ent, op, keepNewest,
                   phase, listing, visited, collected, run, dryReported, lapse, hkSuffix, bakVars, argVars>>

\* the loop over the map ends: Ok(cleaned)
ProcessDone ==
    /\ phase = "process"
    /\ {collected[i].key : i \in 1..Len(collected)} \subseteq doneKeys
    /\ phase' = "done"
    /\ UNCHANGED <<pc, lockVars, fileVars, sessVars, cfgVars, outVars, cleaned,
                   timeVars, scanVars, op, keepNewest, listing, visited,
                   collected, doneKeys, run, dryReported, lapse, hkSuffix, bakVars, argVars>>

\* the same command is run again without --dry-run; dt seconds have passed
\* and every mtime is dt older
RealRunFollows ==
    /\ phase = "done" /\ run = 1 /\ dryRun
    /\ \E dt \in 0..1 :
        /\ lapse' = dt
        /\ listing' = [i \in 1..Len(listing) |->
                          [listing[i] EXCEPT !.age = @ + dt]]
    /\ run' = 2 /\ dryRun' = FALSE /\ phase' = "visit"
    /\ dryReported' = reported
    /\ scanIdx' = 0 /\ ent' = NoEntry /\ reported' = {} /\ removed' = {}
    /\ visited' = {} /\ collected' = <<>> /\ doneKeys' = {}
    /\ UNCHANGED <<pc, lockVars, fileVars, sessVars, strategy, mode, outVars,
                   cleaned, timeVars, olderThan, recursive, op, keepNewest,
                   hkSuffix, bakVars, argVars>>

NextScan ==
    \/ CleanLocksVisit
    \/ CleanBackupsVisit
    \/ EndOfDirectory
    \/ ProcessGroup
    \/ ProcessDone
    \/ RealRunFollows

SpecScan == InitScan /\ [][NextScan]_vars

(* ------------- clean_backups under a configured suffix (SpecSfx) -------- *)
\* `mutx housekeep backups [--suffix .bak] [--keep-newest N] [--older-than A]`
InitSfx ==
    /\ pc = [p \in Procs |-> IF p = Hk THEN "hk_idle" ELSE "open"]
    /\ strategy = [w \in Writers |-> "Wait"]
    /\ mode = [w \in Writers |-> "Simple"]
    /\ dryRun = FALSE
    /\ lockIno = 0
    /\ fd = [p \in Procs |-> 0]
    /\ locked = [p \in Procs |-> FALSE]
    /\ targetExists = FALSE
    /\ target = <<>>
    /\ targetIno = 0
    /\ inpos = [w \in Writers |-> 0]
    /\ buffer = [w \in Writers |-> <<>>]
    /\ tempOpen = [w \in Writers |-> FALSE]
    /\ tempData = [w \in Writers |-> <<>>]
    /\ err = [w \in Writers |-> "none"]
    /\ exitCode = [w \in Writers |-> -1]
    /\ cleaned = 0
    /\ TimeIdle
    /\ olderThan \in {{}, {0}}
    /\ recursive \in BOOLEAN
    /\ scanIdx = 0 /\ ent = NoEntry /\ reported = {} /\ removed = {}
    /\ op = "backups"
    /\ keepNewest \in {{}, {0}, {1}}
    /\ phase = "visit" /\ listing = <<>> /\ visited = {} /\ collected = <<>>
    /\ doneKeys = {} /\ run = 1 /\ dryReported = {} /\ lapse = 0
    /\ hkSuffix \in {BackupSuffix, BakSuffix}
    /\ BakIdle /\ ArgIdle

NextSfx ==
    \/ CleanBackupsVisit
    \/ EndOfDirectory
    \/ ProcessGroup
    \/ ProcessDone

SpecSfx == InitSfx /\ [][NextSfx]_vars

(* ------------- AtomicWriter under a sequence of write calls (SpecWr) --- *)
\* Every writer takes the lock, hands the slices of wrPlan to write_all one
\* call at a time and commits.  inpos counts the calls made so far.
Slices == {<<>>, <<1>>, <<2, 3>>}
Plans == UNION {[1..n -> Slices] : n \in 0..MaxWrites}

InitWr ==
    /\ pc = [p \in Procs |-> IF p = Hk THEN "hk_idle" ELSE "open"]
    /\ strategy = [w \in Writers |-> "Wait"]
    /\ mode \in [Writers -> Modes]
    /\ dryRun = FALSE
    /\ lockIno \in {0, 1}
    /\ fd = [p \in Procs |-> 0]
    /\ locked = [p \in Procs |-> FALSE]
    /\ targetExists \in BOOLEAN
    /\ target = IF targetExists THEN OldContent ELSE <<>>
    /\ targetIno = 0
    /\ inpos = [w \in Writers |-> 0]
    /\ buffer = [w \in Writers |-> <<>>]
    /\ tempOpen = [w \in Writers |-> FALSE]
    /\ tempData = [w \in Writers |-> <<>>]
    /\ err = [w \in Writers |-> "none"]
    /\ exitCode = [w \in Writers |-> -1]
    /\ cleaned = 0
    /\ TimeIdle
    /\ olderThan = {} /\ recursive = FALSE /\ scanIdx = 0
    /\ ent = NoEntry /\ reported = {} /\ removed = {}
    /\ SweepIdle /\ BakIdle /\ PathIdle
    /\ wrPlan \in Plans
    /\ stamped = FALSE /\ bakDir = "parent"

\* writer.write_all(slice)
WriteCall(w) ==
    /\ pc[w] = "copy"
    /\ inpos[w] < Len(wrPlan)
    /\ WriteAll(w, wrPlan[inpos[w] + 1])
    /\ inpos' = [inpos EXCEPT ![w] = @ + 1]
    /\ UNCHANGED <<pc, lockVars, cfgVars, outVars, otherVars>>

\* write_all returns Err in streaming mode (open of the temp file or its write)
WriteCallFail(w) ==
    /\ pc[w] = "copy"
    /\ mode[w] = "Streaming"
    /\ inpos[w] < Len(wrPlan)
    /\ SessionFails(w, "WriteFailed")

\* the caller has no slice left and calls writer.commit()
LastWriteDone(w) ==
    /\ pc[w] = "copy"
    /\ inpos[w] = Len(wrPlan)
    /\ pc' = [pc EXCEPT ![w] = "commit"]
    /\ UNCHANGED <<lockVars, fileVars, sessVars, cfgVars, outVars, otherVars>>

WriterNextWr(w) ==
    \/ OpenLockFile(w)
    \/ LockWait(w)
    \/ BeginSession(w)
    \/ WriteCall(w)
    \/ WriteCallFail(w)
    \/ LastWriteDone(w)
    \/ CommitOpenTemp(w)
    \/ CommitWriteBuffer(w)
    \/ CommitRename(w)
    \/ CommitFail(w)
    \/ Release(w)

NextWr == \E w \in Writers : WriterNextWr(w)

SpecWr == InitWr /\ [][NextWr]_vars

(* ======================= properties of the claims ====================== *)
AllExited == \A w \in Writers : pc[w] \in {"done", "failed"}

InitialTarget == IF targetExists THEN OldContent ELSE <<>>

\* a step taken by writer w (every writer step moves pc[w] or inpos[w])
StepOf(w) == pc'[w] # pc[w] \/ inpos'[w] # inpos[w]

\* C1: while a FileLock on the path is live, no other acquire on the path
\* returns a descriptor: a writer becomes a holder only when nobody else is.
C1_AcquireOnlyWhenNoLiveLock ==
    [][\A w \in Writers :
        (~Holds(w) /\ Holds(w)') => \A v \in Writers \ {w} : ~Holds(v)]_vars

\* C1, restricted to runs without clean_locks (holds under SpecW)
C1_NoHousekeeper_OneLivePerPath ==
    \A v, w \in Writers : (v # w /\ Holds(v)) => ~Holds(w)

\* C2: once every writer has exited, the target holds the complete payload
\* of exactly one writer that committed (and is untouched if none did).
C2_FinalContentIsOnePayload ==
    AllExited =>
        IF \E w \in Writers : exitCode[w] = 0
        THEN /\ targetExists
             /\ \E w \in Writers :
                    exitCode[w] = 0 /\ targetIno = w /\ target = Payload(w)
        ELSE targetIno = 0 /\ target = InitialTarget

C2_Witness ==
    /\ AllExited
    /\ \A w \in Writers : exitCode[w] = 0
    /\ targetExists /\ target = Payload(targetIno)

\* C3: a reader of the target path sees the old content or one writer's whole
\* payload in every state; no step of a session before the rename changes the
\* target, and the step that completes commit installs the whole payload.
C3_ReaderSeesOldOrNew ==
    [][/\ \/ targetIno' = 0 /\ target' = InitialTarget'
          \/ targetIno' \in Writers /\ targetExists' /\ target' = Payload(targetIno')
       /\ \A w \in Writers :
            /\ (Holds(w) /\ StepOf(w) /\ pc'[w] # "committed" /\ pc[w] # "committed")
                    => fileVars' = fileVars
            /\ (StepOf(w) /\ pc'[w] = "committed")
                    => (targetExists' /\ target' = Payload(w) /\ targetIno' = w)]_vars

C3_Witness ==
    \E w \in Writers :
        /\ pc[w] = "commit_rename" /\ tempData[w] = Payload(w)
        /\ targetExists /\ target = OldContent

\* C4: a session that ends without commit leaves the target (content and
\* inode) as it was and leaves no temp file of its own behind.
C4_AbandonedSessionLeavesNoTrace ==
    [][\A w \in Writers :
        (Holds(w) /\ pc'[w] = "failed") =>
            /\ fileVars' = fileVars
            /\ targetIno' # w
            /\ ~tempOpen'[w]]_vars

C4_Witness ==
    \E w \in Writers :
        /\ pc[w] = "failed" /\ err[w] \in {"Io:Other", "Io:Interrupted", "WriteFailed"}
        /\ mode[w] = "Streaming" /\ inpos[w] > 0
        /\ ~tempOpen[w] /\ targetExists /\ target = OldContent /\ targetIno = 0

C6_ExclusionUnderHousekeeping ==
    Cardinality({w \in Writers : Holds(w)}) <= 1

\* C7: the scan neither unlinks nor reports an entry that a live FileLock
\* holds, and it reports (and, unless dry-run, unlinks) every regular file
\* in its scope named <stem>.lock that nobody holds, that is old enough for
\* older_than and whose system calls succeed.
C7_InScope(e) == e.place = "file" \/ (recursive /\ e.place = "in_subdir")

C7_DotLockName(n) ==
    /\ Len(n) > 5
    /\ SubSeq(n, Len(n) - 4, Len(n)) = <<".", "l", "o", "c", "k">>

C7_OldEnough(e) == \A a \in olderThan : e.age >= a

C7_HeldKeptOrphansCleaned ==
    scanIdx >= 1 =>
        /\ ent.held => (scanIdx \notin removed /\ scanIdx \notin reported)
        /\ (/\ C7_InScope(ent) /\ C7_DotLockName(ent.name) /\ ~ent.held
            /\ C7_OldEnough(ent) /\ ent.fault = "none")
                => (scanIdx \in reported /\ (dryRun \/ scanIdx \in removed))

C7_Witness ==
    /\ scanIdx = 2 /\ ~dryRun
    /\ ent.held /\ ent.name = LockName /\ ent.place = "file" /\ ent.fault = "none"
    /\ removed = {1} /\ reported = {1}

\* C11: a writer whose lock acquisition fails (LockTimeout, LockWouldBlock,
\* LockAcquisitionFailed, LockCreationFailed) fails from inside acquire,
\* keeps neither the lock nor a handle on the lock file, has made no backup
\* and no temp file, and none of its steps up to the failure has changed
\* the target, the backup or the staging file.
C11_LockErrors == {"LockTimeout", "LockWouldBlock", "LockAcquisitionFailed",
                   "LockCreationFailed"}

C11_FailedAcquireLeavesNothing ==
    [][\A w \in Writers :
        /\ (pc[w] \in {"open", "lock", "sleep"} /\ pc'[w] # pc[w]) =>
              /\ fileVars' = fileVars /\ bakFiles' = bakFiles
              /\ ~tempOpen'[w] /\ tempData'[w] = <<>> /\ ~backedUp'[w]
        /\ (err[w] = "none" /\ err'[w] \in C11_LockErrors) =>
              /\ pc[w] \in {"open", "lock", "sleep"} /\ pc'[w] = "failed"
              /\ ~locked'[w] /\ fd'[w] = 0]_vars

C11_Witness ==
    \E w \in Writers : \E v \in Writers \ {w} :
        /\ err[w] = "LockTimeout" /\ backupOn[w] /\ mode[w] = "Streaming"
        /\ pc[v] = "bk_rename" /\ targetExists

\* C15: a writer with --backup holds the lock from before its backup until
\* after its commit, and in that time nothing changes the target but its
\* own commit; when it commits, the backup file holds the bytes the target
\* had since the lock was acquired and the target holds the writer's payload.
C15_BackupIsBaseline ==
    [][\A w \in Writers : backupOn[w] =>
        /\ (Holds(w) /\ Holds(w)' /\ pc'[w] # "committed") =>
              (target' = target /\ targetExists' = targetExists)
        /\ (pc[w] # "committed" /\ pc'[w] = "committed") =>
              /\ locked[w] /\ backedUp[w]
              /\ bakExists' /\ bak' = target
              /\ targetExists' /\ target' = Payload(w)]_vars

\* C16: create_backup on a target that does not exist returns PathNotFound
\* and creates nothing: the write fails with exit code 1, the target still
\* does not exist, and no backup or staging file has appeared.
C16_BackupOfMissingTargetFails ==
    [][\A w \in Writers :
        (pc[w] = "backup" /\ pc'[w] # "backup" /\ ~targetExists) =>
            /\ pc'[w] = "failed" /\ err'[w] = "PathNotFound" /\ exitCode'[w] = 1
            /\ ~targetExists' /\ fileVars' = fileVars /\ bakFiles' = bakFiles
            /\ ~tempOpen'[w] /\ ~locked'[w]]_vars

C16_Witness ==
    \E w \in Writers :
        /\ err[w] = "PathNotFound" /\ backupOn[w]
        /\ ~targetExists /\ ~bakExists /\ ~stageExists

\* C12: in a scan by clean_locks or clean_backups, recursive or not, an
\* entry that is a symlink, or that lies behind a symlinked directory, is
\* never handed to the visitor, never filed as a backup, never unlinked and
\* never reported.
C12_SymlinksUntouched ==
    \A i \in 1..Len(listing) :
        listing[i].place \in {"symlink", "in_linked_dir"} =>
            /\ i \notin visited /\ i \notin removed /\ i \notin reported
            /\ \A j \in 1..Len(collected) : collected[j].idx # i

C12_Witness ==
    /\ phase = "done" /\ ~dryRun /\ recursive /\ op = "backups" /\ keepNewest = {0}
    /\ Len(listing) = 2
    /\ listing[1].place = "symlink" /\ IsBackupFile(listing[1].name)
    /\ listing[2].place = "in_linked_dir" /\ IsBackupFile(listing[2].name)

\* C13: after clean_backups with keep_newest = K, no older_than and no dry
\* run, a group of N backups whose unlinks all succeed has min(N, K) files
\* left, and no file left is older than a file removed.
C13_Group(k) ==
    {i \in 1..Len(listing) :
        /\ listing[i].place = "file" \/ (recursive /\ listing[i].place = "in_subdir")
        /\ EndsWith(listing[i].name, BackupSuffix)
        /\ listing[i].fault # "probe"
        /\ ExtractBaseFilename(listing[i].name) = k}

C13_KeepNewestKeepsK ==
    (op = "backups" /\ phase = "done" /\ run = 1 /\ ~dryRun /\ olderThan = {}) =>
        \A keep \in keepNewest :
        \A n \in 1..Len(listing) :
            LET group == C13_Group(ExtractBaseFilename(listing[n].name))
                left == group \ removed
            IN  (\A i \in group : listing[i].fault = "none") =>
                    /\ Cardinality(left) = Min(Cardinality(group), keep)
                    /\ \A i \in left : \A j \in group \ left :
                           listing[i].age <= listing[j].age

C13_Witness ==
    /\ op = "backups" /\ phase = "done" /\ run = 1 /\ ~dryRun /\ olderThan = {}
    /\ keepNewest = {1}
    /\ Len(listing) = 2
    /\ C13_Group(ExtractBaseFilename(PlainBackup)) = {1, 2}
    /\ listing[1].age > listing[2].age
    /\ listing[1].fault = "none" /\ listing[2].fault = "none"
    /\ removed = {1}

C17_SameFile == lockPath # <<>> /\ Resolve(lockPath) = Resolve(outArg)

C17_CollisionRefused ==
    C17_SameFile =>
        /\ fd[Holder] = 0
        /\ \/ pc[Holder] = "pre_validate"
           \/ pc[Holder] = "failed" /\ err[Holder] = "LockPathCollision"

\* C18: derive_lock_path fails with PathNotFound exactly when neither the
\* target nor the directory that would hold it exists, and then the cache
\* directory is left as it was; a new target in an existing directory (a
\* bare relative file name lies in the current directory) is not refused.
C18_DirectoryOfTarget == Parent(Norm(outArg))

C18_NothingThere == ~Exists(outArg) /\ C18_DirectoryOfTarget \notin Dirs

C18_PathNotFoundIffNoParent ==
    [][pc[Holder] = "pre_lockpath" /\ lockArg = <<>> /\ pc'[Holder] # "pre_lockpath"
        => /\ (err'[Holder] = "PathNotFound") <=> C18_NothingThere
           /\ err'[Holder] = "PathNotFound" => cacheDir' = cacheDir]_vars

\* C19: with neither --follow-symlinks nor --follow-lock-symlinks, a write
\* whose input or output path is a symlink ends with SymlinkNotAllowed, one
\* whose lock path is a symlink ends with LockSymlinkNotAllowed, and in both
\* cases the lock file is never opened, no backup or temp file appears, and
\* the target and the symlink's referent stay as they were.
C19_Defaults == ~follow /\ ~followLock

C19_ContentSymlink == Lstat(inArg) = "link" \/ Lstat(outArg) = "link"

C19_LockSymlink == Lstat(lockArg) = "link"

\* an input that is no symlink is given as a regular file (or is stdin)
C19_PlainInputOk == inArg = <<>> \/ Lstat(inArg) = "link" \/ Stat(inArg) = "file"

\* nothing opened, nothing created, the target as it was at the start (the
\* referent is the target, the input, /d/lk or nothing: none is written
\* before the lock file is opened)
C19_Untouched ==
    /\ fd[Holder] = 0 /\ lockIno = 0
    /\ ~tempOpen[Holder] /\ ~bakExists /\ ~stageExists
    /\ target = IF targetExists THEN OldContent ELSE <<>>

C19_ErrorExpected ==
    IF Lstat(inArg) = "link" /\ Stat(inArg) = "none" THEN "PathNotFound"
    ELSE IF C19_ContentSymlink THEN "SymlinkNotAllowed"
    ELSE IF targetExists /\ Resolve(lockArg) = TargetFile THEN "LockPathCollision"
    ELSE "LockSymlinkNotAllowed"

RECURSIVE C23_Concat(_)
C23_Concat(ss) == IF ss = <<>> THEN <<>> ELSE Head(ss) \o C23_Concat(Tail(ss))

\* C23: once a writer's commit has succeeded, the target exists and holds the
\* written slices concatenated in call order (nothing when there were none),
\* whatever it held before and in either write mode; a later writer that
\* commits the same slices leaves the same bytes.
C23_TargetIsConcatenation ==
    (\E w \in Writers : pc[w] \in {"committed", "done"})
        => targetExists /\ target = C23_Concat(wrPlan)

\* both writers have committed a plan of two different non-empty slices, one
\* buffered and one streaming
C23_Witness ==
    /\ \A w \in Writers : pc[w] = "done" /\ exitCode[w] = 0
    /\ \E v, w \in Writers : mode[v] = "Simple" /\ mode[w] = "Streaming"
    /\ Len(wrPlan) = MaxWrites
    /\ \A i \in 1..Len(wrPlan) : wrPlan[i] # <<>>
    /\ wrPlan[1] # wrPlan[2]

\* C24: the lock path derived for a target is fixed by the target's canonical
\* path: every spelling of the output that leads to the target derives the
\* one lock path of that canonical path, whether or not the target exists
\* yet, and spellings of different targets derive different lock paths.
C24_OneLockPathPerTarget ==
    /\ \A p \in OutArgs :
            Resolve(p) = TargetFile /\ Exists(Parent(TargetFile))
                => DeriveLockPath(p) = CacheDir \o TargetFile
    /\ \A p, q \in OutArgs :
            /\ Resolve(p) # Resolve(q)
            /\ DeriveLockPath(p) # <<>> /\ DeriveLockPath(q) # <<>>
            => DeriveLockPath(p) # DeriveLockPath(q)

\* 0-based position of a collected backup in its group, newest first, files
\* of equal mtime in the order they were collected
C25_Index(it) ==
    Cardinality({j \in 1..Len(collected) :
        /\ collected[j].key = it.key
        /\ \/ collected[j].age < it.age
           \/ collected[j].age = it.age /\ collected[j].idx < it.idx})

C25_Scheduled ==
    {collected[n].idx : n \in {m \in 1..Len(collected) :
        \/ \E keep \in keepNewest : C25_Index(collected[m]) >= keep
        \/ \E maxAge \in olderThan : collected[m].age > maxAge}}

C25_Failing == {collected[n].idx : n \in {m \in 1..Len(collected) : collected[m].fault # "none"}}

\* C25: when clean_backups has finished, the backups it scheduled for deletion
\* (those a dry run reports, those a real run unlinks unless the unlink fails)
\* are exactly the classified backups whose index in their group, newest
\* first, is at least keep_newest or whose age exceeds older_than; a policy
\* that is not set schedules nothing.
C25_ScheduledIffEitherPolicy ==
    (op = "backups" /\ phase = "done") =>
        /\ dryRun => reported = C25_Scheduled
        /\ ~dryRun => removed = C25_Scheduled \ C25_Failing /\ reported = removed
        /\ keepNewest = {} /\ olderThan = {} => reported = {} /\ removed = {}

\* a dry run with both policies set has reported the older of two backups of
\* one file for its age alone: its index is below keep_newest
C25_Witness ==
    /\ op = "backups" /\ phase = "done" /\ dryRun /\ run = 1
    /\ keepNewest = {MaxKeep} /\ olderThan = {0}
    /\ Len(collected) = 2
    /\ collected[1].key = collected[2].key
    /\ collected[1].age = 1 /\ collected[2].age = 0
    /\ reported = {collected[1].idx}

\* C26: under older_than = A, clean_locks neither unlinks nor reports a lock
\* file whose modification time is newer than now - A (age below A, a
\* modification time in the future included), held or not.
C26_YoungLocksKept ==
    (op = "locks" /\ scanIdx >= 1) =>
        \A a \in olderThan :
            ent.age < a => scanIdx \notin removed /\ scanIdx \notin reported

\* entries of the finished scan's directory that were in its reach
C27_Due == {i \in 1..Len(listing) : Reached(listing[i])}

\* C27: a failure on one file (the lock probe or the metadata read fails,
\* the unlink fails, or the file is gone when it is unlinked) never makes the
\* scan return Err: a scan fails only on a directory entry it cannot read;
\* a scan that has ended has handled every entry in its reach, and a real
\* run reports exactly the files it unlinked.
C27_FileFailuresNeverAbort ==
    /\ phase = "failed" => EntryFails(ent)
    /\ phase = "done" => visited = C27_Due
    /\ ~dryRun => reported = removed

\* a real clean_locks run met a file that vanished before the unlink, went
\* on, unlinked the orphan after it, and returned Ok with only that one
C27_Witness ==
    /\ op = "locks" /\ phase = "done" /\ ~dryRun /\ run = 1
    /\ Len(listing) = 2
    /\ listing[1].fault = "unlink_notfound" /\ listing[2].fault = "none"
    /\ visited = {1, 2}
    /\ removed = {2} /\ reported = {2}

\* C28: with a suffix that is empty or the single character ".",
\* create_backup goes no further than its checks: it never returns Ok and
\* no backup or staging file comes to exist.
C28_BadSuffixRejected ==
    suffix \in {<<>>, <<".">>} =>
        /\ \A w \in Writers : ~backedUp[w] /\ pc[w] \notin {"bk_copy", "bk_rename"}
        /\ ~bakExists /\ ~stageExists

\* the file name the claim gives the backup
C29_Name == tgtName \o (IF stamped THEN <<".">> \o Stamp ELSE <<>>) \o suffix

\* C29: while create_backup runs the source stays as it is, and the step on
\* which it returns Ok leaves a backup file named
\* {source name}[.YYYYMMDD_HHMMSS]{suffix}, stamped iff the timestamp flag
\* is set, that holds the source's bytes, with no staging file left.
C29_ExactlyOneFaithfulBackup ==
    [][\A w \in Writers :
          /\ pc[w] \in BackupPcs => targetExists' = targetExists /\ target' = target
          /\ (backedUp'[w] /\ ~backedUp[w]) =>
                /\ BackupName = C29_Name /\ IsTimestamp(Stamp)
                /\ ~BackupIsTarget
                /\ bakExists' /\ bak' = target
                /\ ~stageExists']_vars

\* the backups of one backed-up file: the classified entries of one directory
\* that share a key
C30_BackupsOf(pl, k) ==
    {i \in 1..Len(listing) :
        /\ listing[i].place = pl /\ Reached(listing[i])
        /\ IsBackupFile(listing[i].name)
        /\ listing[i].fault # "probe"
        /\ ExtractBaseFilename(listing[i].name) = k}

\* C30: a real clean_backups run under keep_newest = N alone leaves every
\* backed-up file its own N newest backups (all of them when it has fewer):
\* backups of a file of the same name in another directory of the same
\* recursive scan do not count against it.
C30_KeepNewestPerFile ==
    (op = "backups" /\ phase = "done" /\ run = 1 /\ ~dryRun /\ olderThan = {}) =>
        \A keep \in keepNewest :
        \A n \in 1..Len(listing) :
            LET mine == C30_BackupsOf(listing[n].place,
                                      ExtractBaseFilename(listing[n].name))
            IN  (\A i \in 1..Len(listing) : listing[i].fault = "none") =>
                    Cardinality(mine \ removed) = Min(Cardinality(mine), keep)

\* C31: a writer blocked in lock_exclusive (strategy Wait) does not stay
\* there: once every holder has released it returns, with the lock held
\* unless the lock call itself failed.
C31_WaitAcquires ==
    \A w \in Writers :
        (pc[w] = "lock" /\ strategy[w] = "Wait")
            ~> (Holds(w) \/ (pc[w] = "failed" /\ err[w] = "LockAcquisitionFailed"))

\* a waiting writer holds the lock after the other writer has finished its
\* write and released it
C31_Witness ==
    \E w, v \in Writers :
        /\ w # v
        /\ strategy[w] = "Wait" /\ locked[w] /\ Holds(w)
        /\ pc[v] = "done" /\ fd[v] = 0

\* c_0 = 10 ms, c_(k+1) = floor(1.5 * c_k)
RECURSIVE C32_Interval(_)
C32_Interval(k) == IF k = 0 THEN 10 ELSE (3 * C32_Interval(k - 1)) \div 2

\* C32: in the bounded-poll loop the interval before the k-th sleep is c_k,
\* and the k-th sleep lasts min(c_k, max_poll_interval) plus a jitter of 0 to
\* 99 ms, so never more than max_poll_interval + 100 ms.
C32_SleepIsCappedBackoffPlusJitter ==
    /\ pc[Poller] \in {"lock", "sleep"} /\ fd[Poller] # 0 => cur = C32_Interval(polls)
    /\ pc[Poller] = "sleep" =>
          /\ wakeAt - elapsed - Min(C32_Interval(polls), maxPoll) \in 0..99
          /\ wakeAt - elapsed < maxPoll + 100

\* the second sleep (k = 1) under the default cap, with the largest jitter
C32_Witness ==
    /\ pc[Poller] = "sleep" /\ polls = 1 /\ maxPoll = 1000
    /\ wakeAt - elapsed = 15 + 99

\* C33: a writer has no temp file before it needs one: in streaming mode
\* none from new up to the first write call, in buffered mode none until
\* commit runs, however many write calls were made; a writer dropped before
\* that leaves none behind.
C33_NoTempBeforeNeeded ==
    \A w \in Writers :
        /\ (pc[w] \in {"held", "copy", "commit"}
                /\ (mode[w] = "Simple" \/ inpos[w] = 0)) => ~tempOpen[w]
        /\ pc[w] = "failed" => ~tempOpen[w]

\* a buffered writer has made every write call and has no temp file, after a
\* streaming writer was dropped before its first write
C33_Witness ==
    \E w, v \in Writers :
        /\ mode[w] = "Simple" /\ pc[w] = "commit" /\ inpos[w] = MaxWrites
        /\ buffer[w] # <<>> /\ ~tempOpen[w]
        /\ mode[v] = "Streaming" /\ pc[v] = "failed" /\ inpos[v] = 0

\* the step is one of writer w's own
C34_StepOf(w) ==
    \/ pc'[w] # pc[w] \/ inpos'[w] # inpos[w] \/ buffer'[w] # buffer[w]
    \/ tempOpen'[w] # tempOpen[w] \/ tempData'[w] # tempData[w]

\* C34: a commit that fails, at whichever of its steps, returns WriteFailed
\* with the writer's temp file gone and the target untouched; nor does any
\* earlier step of the session touch the target, so the target still holds
\* what it held before the session.
C34_FailedCommitLeavesTarget ==
    [][\A w \in Writers :
          /\ (pc[w] \in {"commit", "commit_write", "commit_rename"} /\ pc'[w] = "failed") =>
                /\ err'[w] = "WriteFailed"
                /\ ~tempOpen'[w] /\ tempData'[w] = <<>>
                /\ fileVars' = fileVars
          /\ (pc[w] \in SessionPcs /\ C34_StepOf(w) /\ pc'[w] # "committed") =>
                fileVars' = fileVars]_vars

\* a buffered commit has failed after the whole input was written to its temp
\* file: the target still holds the old content and no temp file is left
C34_Witness ==
    \E w \in Writers :
        /\ pc[w] = "failed" /\ err[w] = "WriteFailed" /\ inpos[w] = PayloadLen
        /\ mode[w] = "Simple"
        /\ targetExists /\ target = OldContent /\ targetIno = 0
        /\ ~tempOpen[w]
        /\ \A v \in Writers \ {w} : pc[v] = "open"

\* the step creates, replaces or removes a file in the target's directory
C35_Mutates ==
    \/ fileVars' # fileVars \/ bakFiles' # bakFiles
    \/ tempOpen' # tempOpen \/ tempData' # tempData

\* C35: in the write pipeline the backup, the temp file and the rename over
\* the target all happen while the process holds the lock, in the order
\* acquire, optional backup, writes, commit, release; the lock goes away only
\* after commit returned or when a step failed, and every exit leaves it
\* released.
C35_PipelineUnderLock ==
    [][\A w \in Writers :
          /\ (C34_StepOf(w) /\ C35_Mutates) =>
                Holds(w) /\ locked[w] /\ fd[w] # 0
          /\ (C34_StepOf(w) /\ bakFiles' # bakFiles) =>
                /\ pc[w] \in BackupPcs /\ backupOn[w]
                /\ inpos[w] = 0 /\ buffer[w] = <<>> /\ ~tempOpen[w]
          /\ (pc'[w] \in BackupPcs /\ pc[w] \notin BackupPcs) =>
                pc[w] = "lock" /\ locked'[w]
          /\ (pc'[w] \in SessionPcs /\ pc[w] \notin SessionPcs) =>
                pc[w] = "held" /\ locked[w] /\ (backupOn[w] => backedUp[w])
          /\ (pc'[w] = "committed" /\ pc[w] # "committed") =>
                pc[w] \in SessionPcs /\ locked'[w]
          /\ (locked[w] /\ ~locked'[w]) =>
                \/ pc[w] = "committed" /\ pc'[w] = "done"
                \/ pc'[w] = "failed"
          /\ pc'[w] \in {"done", "failed"} => ~locked'[w] /\ fd'[w] = 0]_vars

\* one writer has backed the old target up, replaced it and released; the
\* other one failed at its backup step and holds nothing either
C35_Witness ==
    \E w, v \in Writers :
        /\ pc[w] = "done" /\ backedUp[w] /\ bakExists /\ bak = OldContent
        /\ targetExists /\ target = Payload(w)
        /\ pc[v] = "failed" /\ err[v] = "BackupFailed"
        /\ \A p \in Writers : ~locked[p] /\ fd[p] = 0

\* C36: a scan unlinks only regular files it classifies: a name ending in
\* .lock for clean_locks, in the backup suffix for clean_backups, directly in
\* the root or, when recursive, in a subdirectory that is no symlink; with
\* recursive unset nothing inside a subdirectory goes.
C36_OnlyClassifiedFilesUnlinked ==
    \A i \in removed :
        LET e == listing[i]
        IN  /\ e.place \in {"file", "in_subdir"}
            /\ e.place = "in_subdir" => recursive
            /\ IF op = "locks" THEN EndsWith(e.name, <<".", "l", "o", "c", "k">>)
                ELSE EndsWith(e.name, hkSuffix)

\* C37: when create_backup fails, at whichever step, it leaves no staging
\* file and no partial backup file behind, and the source is as it was.
C37_FailedBackupLeavesNothing ==
    [][\A w \in Writers :
          (pc[w] \in BackupPcs /\ pc'[w] = "failed") =>
              /\ ~stageExists'
              /\ bakExists' = bakExists /\ bak' = bak
              /\ fileVars' = fileVars]_vars

\* C38: the bounded-poll acquire returns LockTimeout only right after a
\* try-lock that met contention with the elapsed time at or past the duration;
\* it always tries at least once, so a free lock is taken by the first attempt
\* without any sleep, for every duration, 0 included.
C38_TimeoutOnlyAfterContendedTry ==
    [][/\ (err'[Poller] = "LockTimeout" /\ err[Poller] # "LockTimeout") =>
             /\ pc[Poller] = "lock" /\ HeldByOther(Poller)
             /\ elapsed >= duration
       /\ (pc[Poller] = "lock" /\ pc'[Poller] # "lock" /\ ~HeldByOther(Poller)) =>
             /\ pc'[Poller] = "held" /\ locked'[Poller] /\ err'[Poller] = "none"
             /\ polls' = polls
       /\ (pc[Poller] = "lock" /\ pc'[Poller] = "sleep") =>
             HeldByOther(Poller) /\ elapsed < duration]_vars

\* with a duration of 0 the lock was free at the first attempt and was taken
\* without a single sleep
C38_Witness ==
    /\ duration = 0 /\ polls = 0 /\ releasedAt = 0
    /\ pc[Poller] = "held" /\ locked[Poller] /\ err[Poller] = "none"

\* C39: no step of create_backup overwrites, truncates or removes the
\* source: the staging path is never the source's own path, so the copy and
\* the rename leave the source's bytes and inode alone.
C39_BackupSparesSource ==
    [][\A w \in Writers :
          (pc[w] \in {"bk_copy", "bk_rename"} /\ pc'[w] # pc[w]) =>
              /\ ~StagingIsTarget
              /\ fileVars' = fileVars]_vars

\* C40: a lock attempt ends in LockWouldBlock or LockTimeout only while
\* another writer holds the lock on the same file; the probe of a concurrent
\* clean_locks does not make an attempt fail.
C40_FailsOnlyAgainstWriter ==
    [][\A w \in Writers :
          (err[w] = "none" /\ err'[w] \in {"LockWouldBlock", "LockTimeout"}) =>
              \E v \in Writers \ {w} : fd[v] = fd[w] /\ locked[v]]_vars

\* C21: the exit code is fixed by the outcome: 0 when the write succeeded,
\* 2 for LockTimeout and LockWouldBlock, 3 for Interrupted and for an Io
\* error of kind Interrupted, 1 for every other error kind; a process that
\* has not ended has no exit code.
C21_CodeOfKind(e) ==
    IF e \in {"LockTimeout", "LockWouldBlock"} THEN 2
    ELSE IF e \in {"Interrupted", "Io:Interrupted"} THEN 3
    ELSE 1

C21_ExitCodeByOutcome ==
    \A w \in Writers :
        /\ pc[w] = "done" => exitCode[w] = 0 /\ err[w] = "none"
        /\ pc[w] = "failed" => err[w] # "none" /\ exitCode[w] = C21_CodeOfKind(err[w])
        /\ pc[w] \notin {"done", "failed"} => exitCode[w] = -1

C21_Witness ==
    \E w, v \in Writers :
        /\ pc[w] = "failed" /\ err[w] = "Io:Interrupted" /\ exitCode[w] = 3
        /\ pc[v] = "failed" /\ err[v] = "LockWouldBlock" /\ exitCode[v] = 2

\* C22: clean_backups files an entry as a backup exactly when its name
\* ends with the configured suffix (and it is reached and its metadata can
\* be read), and removes or reports nothing else: under the default suffix
\* a.bak and a.backup stay, under the suffix .bak every .mutx.backup stays.
C22_EndsWithSuffix(i) == EndsWith(listing[i].name, hkSuffix)

C22_ClassifiedBySuffix ==
    /\ {collected[j].idx : j \in 1..Len(collected)} =
          {i \in 1..Len(listing) :
              /\ listing[i].place = "file" \/ (recursive /\ listing[i].place = "in_subdir")
              /\ listing[i].fault # "probe"
              /\ C22_EndsWithSuffix(i)}
    /\ \A i \in removed \cup reported : C22_EndsWithSuffix(i)
    /\ \A i \in 1..Len(listing) :
          hkSuffix = BackupSuffix /\ listing[i].name \in {LookAlike, UserBackup}
              => i \notin removed
    /\ \A i \in 1..Len(listing) :
          hkSuffix = BakSuffix /\ EndsWith(listing[i].name, BackupSuffix)
              => i \notin removed

\* C8: a bounded-poll acquire that returns LockTimeout does so at an elapsed
\* time within [duration, duration + max_poll_interval + 100 ms].
C8_TimeoutWindow ==
    \A w \in Writers :
        err[w] = "LockTimeout" =>
            /\ elapsed >= duration
            /\ elapsed <= duration + maxPoll + JitterRange

C8_Witness ==
    /\ err[Poller] = "LockTimeout" /\ exitCode[Poller] = 2
    /\ polls >= 2 /\ duration > 0 /\ elapsed > duration + maxPoll

\* C9: when the holder lets go before the duration has elapsed, the poller's
\* loop ends with the lock held, not with LockTimeout, no earlier than the
\* release and at most one sleep (cap + jitter) after it; the write that
\* follows ends with exit code 0 and the poller's payload in the target.
C9_AcquiresAfterRelease ==
    [][/\ (pc[Poller] = "lock" /\ pc'[Poller] # "lock"
            /\ releasedAt >= 0 /\ releasedAt < duration) =>
                /\ pc'[Poller] = "held" /\ locked'[Poller]
                /\ elapsed >= releasedAt
                /\ elapsed - releasedAt <= maxPoll + JitterRange - 1
       /\ (pc[Poller] # "done" /\ pc'[Poller] = "done") =>
                /\ exitCode'[Poller] = 0
                /\ targetExists' /\ target' = Payload(Poller)]_vars

C9_Witness ==
    /\ pc[Poller] = "done" /\ exitCode[Poller] = 0
    /\ pc[Holder] = "done"
    /\ polls >= 1 /\ releasedAt > 0 /\ releasedAt < duration
    /\ target = Payload(Poller)

\* C10: a NoWait acquire ends in one step: with the lock held elsewhere it
\* fails with LockWouldBlock and exit code 2, otherwise it acquires or fails
\* with LockAcquisitionFailed; a failure leaves the target unchanged.
C10_NoWaitFailsFast ==
    [][\A w \in Writers :
        (strategy[w] = "NoWait" /\ pc[w] = "lock" /\ StepOf(w)) =>
            /\ pc'[w] \in {"held", "failed"}
            /\ HeldByOther(w) =>
                    (pc'[w] = "failed" /\ err'[w] = "LockWouldBlock" /\ exitCode'[w] = 2)
            /\ ~HeldByOther(w) =>
                    (pc'[w] = "held" \/ (err'[w] = "LockAcquisitionFailed" /\ exitCode'[w] = 1))
            /\ pc'[w] = "failed" =>
                    (fileVars' = fileVars /\ ~locked'[w] /\ ~tempOpen'[w] /\ targetIno' # w)]_vars

C10_Witness ==
    \E w \in Writers :
        /\ strategy[w] = "NoWait" /\ pc[w] = "failed"
        /\ err[w] = "LockWouldBlock" /\ exitCode[w] = 2
        /\ \E v \in Writers \ {w} : Holds(v)

====
